---- MODULE Spec2Model ----
(***************************************************************************)
(* A model of the clustering and spectral visitors of                      *)
(* include/DataFrame/DataFrameMLVisitors.h (KMeansVisitor,                 *)
(* AffinityPropVisitor, DBSCANVisitor, MeanShiftVisitor,                   *)
(* FastFourierTransVisitor).                                               *)
(*                                                                         *)
(* Column values are exact integers (a column of halves or thirds is       *)
(* modelled in units of the common denominator); floating-point rounding   *)
(* is not modelled.  Positions are 0-based as in the source; sequences are *)
(* TLA+ sequences, so position p of a column is element p + 1.             *)
(***************************************************************************)
EXTENDS Integers, Sequences, FiniteSets, TLC

\* ------------------------------------------------------------------------
\* Shared helpers
\* ------------------------------------------------------------------------

\* The missing-value sentinel (a quiet NaN): every comparison with it is
\* false and every arithmetic result that involves it is NaN again.
NaN == -1000000

is_nan__(x) == x = NaN

\* *(column_begin + p)
At(s, p) == s[p + 1]

\* The positions 0 .. n-1 in increasing order.
Positions(n) == [k \in 1..n |-> k - 1]

\* All sequences over S of length 0 .. n.
SeqsUpTo(S, n) == UNION {[1..k -> S] : k \in 0..n}

\* The set of elements of a sequence.
Range(s) == {s[k] : k \in 1..Len(s)}

\* The default distance functor of every clustering visitor: (x - y) * (x - y).
dfunc_(x, y) == IF is_nan__(x) \/ is_nan__(y) THEN NaN ELSE (x - y) * (x - y)

\* d <= m on doubles: false when d is NaN.
LessEq(d, m) == ~is_nan__(d) /\ d <= m

\* d < m on doubles: false when d is NaN.
Less(d, m) == ~is_nan__(d) /\ ~is_nan__(m) /\ d < m

\* std::vector::erase(begin() + i), i 0-based.
Erase(s, i) == [k \in 1..(Len(s) - 1) |-> IF k <= i THEN s[k] ELSE s[k + 1]]

\* std::vector::resize(n) on a vector of vectors: cut, or fill with empty ones.
Resize(s, n) == [k \in 1..n |-> IF k <= Len(s) THEN s[k] ELSE << >>]

\* s with the element at position p (0-based) replaced by v.
SetAt(s, p, v) == [k \in 1..Len(s) |-> IF k = p + 1 THEN v ELSE s[k]]

\* The concatenation of the lists ss[k], ss[k+1], ...
RECURSIVE FlattenFrom(_, _)
FlattenFrom(ss, k) ==
    IF k > Len(ss) THEN << >> ELSE ss[k] \o FlattenFrom(ss, k + 1)

\* The concatenation of the lists of a list of lists.
Flatten(ss) == FlattenFrom(ss, 1)

\* How many times v occurs in s.
Count(s, v) == Cardinality({k \in 1..Len(s) : s[k] = v})

\* ------------------------------------------------------------------------
\* State
\* ------------------------------------------------------------------------

\* DBSCANVisitor
VARIABLES
    db_min_mems,       \* min_mems_
    db_max_dist,       \* max_dist_
    db_clusters,       \* clusters_: per cluster, the referenced column positions
    db_clusters_idxs,  \* clusters_idxs_
    db_noisey_idxs,    \* noisey_idxs_
    db_column,         \* the column of the running (or last) apply
    db_cluster_ids,    \* operator()'s cluster_ids
    db_seeds,          \* operator()'s seeds, the work list
    db_stale,          \* what the storage of seeds holds just past its end
    db_cluster_id,     \* operator()'s cluster_id
    db_i,              \* operator()'s loop index
    db_si,             \* expand_cluster_'s growth loop index i
    db_n,              \* expand_cluster_'s growth loop bound n
    db_runs,           \* apply calls since construction or the last reset
    db_pc              \* where apply stands

dbVars == <<db_min_mems, db_max_dist, db_clusters, db_clusters_idxs,
            db_noisey_idxs, db_column, db_cluster_ids, db_seeds, db_stale,
            db_cluster_id, db_i, db_si, db_n, db_runs, db_pc>>

\* KMeansVisitor
VARIABLES
    km_iter_num,       \* iter_num_
    km_cc,             \* cc_
    km_result,         \* result_: the K means
    km_clusters,       \* clusters_: per cluster, what its entries refer to
    km_clusters_idxs,  \* clusters_idxs_
    km_column,         \* the column of the running (or last) apply
    km_seeded,         \* whether seed_ is a seed (not seed_t(-1))
    km_draws,          \* per column size, what gen seeded with seed_ draws
    km_samples,        \* the K positions rd_gen(gen) returned in this apply
    km_iter,           \* calc_k_means_'s iter
    km_runs,           \* apply calls since construction
    km_from_reset,     \* whether pre() ran right before this apply
    km_pc              \* where apply stands

kmVars == <<km_iter_num, km_cc, km_result, km_clusters, km_clusters_idxs,
            km_column, km_seeded, km_draws, km_samples, km_iter, km_runs,
            km_from_reset, km_pc>>

\* AffinityPropVisitor
VARIABLES
    ap_iter_num,       \* iter_num_
    ap_cc,             \* cc_
    ap_dfactor,        \* dfactor_, in units of 1 / APDen
    ap_result,         \* result_: per exemplar, its position and value
    ap_clusters,       \* clusters_: per cluster, what its entries refer to
    ap_clusters_idxs,  \* clusters_idxs_
    ap_column,         \* the column of the running (or last) apply
    ap_simil,          \* operator()'s simil, times APScale
    ap_avail,          \* operator()'s avail, times APScale
    ap_respon,         \* operator()'s respon, times APScale
    ap_m,              \* get_avail_and_respon_'s m
    ap_runs,           \* apply calls since construction or the last reset
    ap_pc              \* where apply stands

apVars == <<ap_iter_num, ap_cc, ap_dfactor, ap_result, ap_clusters,
            ap_clusters_idxs, ap_column, ap_simil, ap_avail, ap_respon,
            ap_m, ap_runs, ap_pc>>

\* MeanShiftVisitor
VARIABLES
    ms_kband,          \* kband_, in twelfths
    ms_max_dist,       \* max_dist_
    ms_max_iter,       \* max_iter_
    ms_clusters,       \* clusters_: per cluster, what its entries refer to
    ms_clusters_idxs,  \* clusters_idxs_
    ms_column,         \* the column of the running (or last) apply
    ms_shifted,        \* operator()'s shifted
    ms_shifting,       \* operator()'s shifting
    ms_iterations,     \* operator()'s iterations
    ms_centriods,      \* build_cluster_'s centriods
    ms_i,              \* build_cluster_'s i
    ms_runs,           \* apply calls since construction or the last reset
    ms_pc              \* where apply stands

msVars == <<ms_kband, ms_max_dist, ms_max_iter, ms_clusters,
            ms_clusters_idxs, ms_column, ms_shifted, ms_shifting,
            ms_iterations, ms_centriods, ms_i, ms_runs, ms_pc>>

\* FastFourierTransVisitor
VARIABLES
    fft_inverse,       \* inverse_
    fft_result,        \* result_
    fft_magnitude,     \* magnitude_, each entry squared
    fft_angle,         \* angle_
    fft_column,        \* the column of the last apply
    fft_runs,          \* apply calls since construction or the last reset
    fft_pc             \* "idle" when constructed or reset, "done" once applied

fftVars == <<fft_inverse, fft_result, fft_magnitude, fft_angle, fft_column,
             fft_runs, fft_pc>>

\* A forward and an inverse FastFourierTransVisitor, the second applied to
\* what the first published.
VARIABLES
    rt_x,              \* the column given to the forward visitor
    rt_spectrum,       \* the forward visitor's result_
    rt_back,           \* the inverse visitor's result_
    rt_pc              \* "start", "forward" or "back"

rtVars == <<rt_x, rt_spectrum, rt_back, rt_pc>>

\* A FastFourierTransVisitor, the calling thread inside operator() and the
\* chunks it has handed to the thread pool.
VARIABLES
    par_thread_level,  \* thread_level_
    par_threshold,     \* ThreadPool::MUL_THR_THHOLD
    par_inverse,       \* inverse_
    par_column,        \* the column operator() was given
    par_work,          \* operator()'s result, the column of the transforms
    par_exp_table,     \* exp_table of the transform of the column
    par_xvec,          \* fft_bluestein_'s xvec, then convolve_'s
    par_yvec,          \* fft_bluestein_'s yvec, then convolve_'s
    par_table,         \* exp_table of a transform inside convolve_
    par_result,        \* result_
    par_tasks,         \* the chunks with the pool: stage, begin, end, next
    par_got,           \* how many of them get() has returned for
    par_reordered,     \* whether a chunk ran while an earlier one was unfinished
    par_phase,         \* "gate": before a stage's gate; "join": at its get() loop
    par_pc             \* "idle", the stage the calling thread is in, or "done"

parVars == <<par_thread_level, par_threshold, par_inverse, par_column,
             par_work, par_exp_table, par_xvec, par_yvec, par_table,
             par_result, par_tasks, par_got, par_reordered, par_phase,
             par_pc>>

\* The calls FastFourierTransVisitor's transforms make, by length alone.
VARIABLES
    cv_inverse,        \* inverse_
    cv_col_s,          \* the length of the column operator() was given
    cv_stack,          \* the calls that have not returned, outermost first
    cv_log,            \* every call made so far: <<function, length, reverse>>
    cv_pc              \* "idle", "run" or "done"

cvVars == <<cv_inverse, cv_col_s, cv_stack, cv_log, cv_pc>>

vars == <<dbVars, kmVars, apVars, msVars, fftVars, rtVars, parVars, cvVars>>

\* What each visitor's operations leave alone: the other visitors.
notDB == <<kmVars, apVars, msVars, fftVars, rtVars, parVars,
          cvVars>>
notKM == <<dbVars, apVars, msVars, fftVars, rtVars, parVars,
          cvVars>>
notAP == <<dbVars, kmVars, msVars, fftVars, rtVars, parVars,
          cvVars>>
notMS == <<dbVars, kmVars, apVars, fftVars, rtVars, parVars,
          cvVars>>
notFFT == <<dbVars, kmVars, apVars, msVars, rtVars, parVars,
          cvVars>>
notRT == <<dbVars, kmVars, apVars, msVars, fftVars, parVars,
          cvVars>>
notPar == <<dbVars, kmVars, apVars, msVars, fftVars, rtVars, cvVars>>
notCV == <<dbVars, kmVars, apVars, msVars, fftVars, rtVars, parVars>>

\* A visitor that is not part of the specification at hand.
DBOff ==
    /\ db_min_mems = 0 /\ db_max_dist = 0 /\ db_clusters = << >>
    /\ db_clusters_idxs = << >> /\ db_noisey_idxs = << >>
    /\ db_column = << >> /\ db_cluster_ids = << >> /\ db_seeds = << >>
    /\ db_stale = 0 /\ db_cluster_id = 0 /\ db_i = 0 /\ db_si = 0
    /\ db_n = 0 /\ db_runs = 0 /\ db_pc = "off"

KMOff ==
    /\ km_iter_num = 0 /\ km_cc = FALSE /\ km_result = << >>
    /\ km_clusters = << >> /\ km_clusters_idxs = << >>
    /\ km_column = << >> /\ km_seeded = FALSE /\ km_draws = << >>
    /\ km_samples = << >> /\ km_iter = 0
    /\ km_runs = 0 /\ km_from_reset = FALSE /\ km_pc = "off"

APOff ==
    /\ ap_iter_num = 0 /\ ap_cc = FALSE /\ ap_dfactor = 0
    /\ ap_result = << >> /\ ap_clusters = << >>
    /\ ap_clusters_idxs = << >> /\ ap_column = << >>
    /\ ap_simil = << >> /\ ap_avail = << >> /\ ap_respon = << >>
    /\ ap_m = 0 /\ ap_runs = 0 /\ ap_pc = "off"

MSOff ==
    /\ ms_kband = 0 /\ ms_max_dist = 0 /\ ms_max_iter = 0
    /\ ms_clusters = << >> /\ ms_clusters_idxs = << >>
    /\ ms_column = << >> /\ ms_shifted = << >> /\ ms_shifting = << >>
    /\ ms_iterations = 0 /\ ms_centriods = << >> /\ ms_i = 0
    /\ ms_runs = 0 /\ ms_pc = "off"

FFTOff ==
    /\ fft_inverse = FALSE /\ fft_result = << >> /\ fft_magnitude = << >>
    /\ fft_angle = << >> /\ fft_column = << >> /\ fft_runs = 0
    /\ fft_pc = "off"

RTOff ==
    /\ rt_x = << >> /\ rt_spectrum = << >> /\ rt_back = << >>
    /\ rt_pc = "off"

ParOff ==
    /\ par_thread_level = 0 /\ par_threshold = 0 /\ par_inverse = FALSE
    /\ par_column = << >> /\ par_work = << >> /\ par_exp_table = << >>
    /\ par_xvec = << >> /\ par_yvec = << >> /\ par_table = << >>
    /\ par_result = << >> /\ par_tasks = << >> /\ par_got = 0
    /\ par_reordered = FALSE /\ par_phase = "off" /\ par_pc = "off"

CVOff ==
    /\ cv_inverse = FALSE /\ cv_col_s = 0 /\ cv_stack = << >>
    /\ cv_log = << >> /\ cv_pc = "off"

\* ------------------------------------------------------------------------
\* DBSCANVisitor
\* ------------------------------------------------------------------------

UNCLASSIFIED == -1
NOISE == -2

\* Bound: the longest column DBSCAN is explored on.
DBMaxLen == 3

\* Bound: how many apply calls may follow each other with no reset between.
DBMaxRuns == 2

\* The values a DBSCAN column is drawn from.
DBValues == {0, 1, 3}

\* Columns with missing values.
DBNaNColumns == {<<NaN>>, <<0, NaN, 1>>, <<NaN, 3, 3>>}

\* The column of the documented example, {0,0.5,1,10,10.5,11,50}, in halves.
DBExampleColumn == <<0, 1, 2, 20, 21, 22, 100>>

\* Longer columns: one whose last position is next to a core point that is
\* not the first core point, and two with duplicate values.
DBLongColumns == {<<2, 1, 3, 0>>, <<0, 3, 3, 0>>, <<0, 3, 3, 0, 0>>}

\* The columns DBSCAN is applied to.
DBColumns ==
    SeqsUpTo(DBValues, DBMaxLen) \cup DBNaNColumns \cup {DBExampleColumn}
        \cup DBLongColumns

\* The (min_mems, max_dist) pairs a visitor is constructed with; <<2, 4>> is
\* the example's min_mems = 2, max_dist = 1 with squared halves.
DBParams == {<<1, 1>>, <<2, 1>>, <<2, 4>>, <<3, 1>>, <<3, 4>>}

\* calculate_cluster_ with the starting position left out of its own
\* neighbourhood.
calculate_cluster_NoSelf(column, column_idx, max_dist) ==
    SelectSeq(Positions(Len(column)),
              LAMBDA i : /\ i # column_idx
                         /\ LessEq(dfunc_(At(column, column_idx),
                                          At(column, i)), max_dist))

\* calculate_cluster_: the positions within max_dist of position column_idx,
\* in increasing order.
calculate_cluster_(column, column_idx, max_dist) ==
    SelectSeq(Positions(Len(column)),
              LAMBDA i : LessEq(dfunc_(At(column, column_idx), At(column, i)),
                                max_dist))

\* expand_cluster_'s first loop: the last index i of seeds whose column value
\* equals the starting value, 0 when there is none.
CoreIndex(column, column_idx, seeds) ==
    LET hits == {i \in 0..(Len(seeds) - 1) :
                    /\ ~is_nan__(At(column, column_idx))
                    /\ At(column, At(seeds, i)) = At(column, column_idx)}
    IN  IF hits = {} THEN 0 ELSE CHOOSE i \in hits : \A h \in hits : h <= i

\* A first loop that labels cluster_ids[i] in place of cluster_ids[seeds[i]].
LabelSeedsByIndex(cluster_ids, seeds, cluster_id) ==
    [k \in 1..Len(cluster_ids) |->
        IF k <= Len(seeds) THEN cluster_id ELSE cluster_ids[k]]

\* expand_cluster_'s first loop: every seed takes the cluster id.
LabelSeeds(cluster_ids, seeds, cluster_id) ==
    [k \in 1..Len(cluster_ids) |->
        IF (k - 1) \in Range(seeds) THEN cluster_id ELSE cluster_ids[k]]

\* The label the growth loop examines for entry j of the neighbourhood:
\* cluster_ids[j].
GrowLabelIndex(cluster_neighors, j) == j

\* expand_cluster_'s inner loop over the neighbourhood of one work-list
\* member, from entry j on: <<cluster_ids, seeds>> afterwards.
RECURSIVE GrowLoop(_, _, _, _, _)
GrowLoop(j, cluster_neighors, cluster_ids, seeds, cluster_id) ==
    IF j >= Len(cluster_neighors) THEN <<cluster_ids, seeds>>
    ELSE LET l == GrowLabelIndex(cluster_neighors, j)
             cluster_val == At(cluster_ids, l)
         IN  IF cluster_val < 0
             THEN GrowLoop(j + 1, cluster_neighors,
                           SetAt(cluster_ids, l, cluster_id),
                           IF cluster_val = UNCLASSIFIED
                           THEN Append(seeds, At(cluster_neighors, j))
                           ELSE seeds,
                           cluster_id)
             ELSE GrowLoop(j + 1, cluster_neighors, cluster_ids, seeds,
                           cluster_id)

\* One pass of the growth loop's body for the work-list member seed.
GrowBody(column, seed, cluster_ids, seeds, cluster_id, min_mems, max_dist) ==
    LET cluster_neighors == calculate_cluster_(column, seed, max_dist)
    IN  IF Len(cluster_neighors) >= min_mems
        THEN GrowLoop(0, cluster_neighors, cluster_ids, seeds, cluster_id)
        ELSE <<cluster_ids, seeds>>

\* The growth loop's bound, were it not to follow the work list.
NextBoundFixed(n, seeds, grown) == n

\* The growth loop's bound n after one pass of its body: seeds.size() when
\* the pass appended to the work list, as it was otherwise.
NextBound(n, seeds, grown) ==
    IF Len(grown) > Len(seeds) THEN Len(grown) ELSE n

\* The list choice with the else of the noise branch lost.
ListOfNoElse(this_id) ==
    IF this_id >= 0 THEN {"cluster", "noise"} ELSE {"noise"}

\* Which list position i goes to when the lists are built: "cluster" or "noise".
ListOf(this_id) == IF this_id >= 0 THEN {"cluster"} ELSE {"noise"}

\* operator()'s last loop from position i on: <<clusters, clusters_idxs,
\* noisey_idxs>> afterwards.
RECURSIVE BuildLists(_, _, _, _, _)
BuildLists(i, cluster_ids, clusters, clusters_idxs, noisey_idxs) ==
    IF i >= Len(cluster_ids) THEN <<clusters, clusters_idxs, noisey_idxs>>
    ELSE LET this_id == At(cluster_ids, i)
             inC == "cluster" \in ListOf(this_id)
             inN == "noise" \in ListOf(this_id)
         IN  BuildLists(i + 1, cluster_ids,
                 IF inC
                 THEN SetAt(clusters, this_id, Append(At(clusters, this_id), i))
                 ELSE clusters,
                 IF inC
                 THEN SetAt(clusters_idxs, this_id,
                            Append(At(clusters_idxs, this_id), i))
                 ELSE clusters_idxs,
                 IF inN THEN Append(noisey_idxs, i) ELSE noisey_idxs)

DBInit ==
    /\ \E p \in DBParams : db_min_mems = p[1] /\ db_max_dist = p[2]
    /\ db_clusters = << >>
    /\ db_clusters_idxs = << >>
    /\ db_noisey_idxs = << >>
    /\ db_column = << >>
    /\ db_cluster_ids = << >>
    /\ db_seeds = << >>
    /\ db_stale = 0
    /\ db_cluster_id = 0
    /\ db_i = 0
    /\ db_si = 0
    /\ db_n = 0
    /\ db_runs = 0
    /\ db_pc = "idle"

\* pre()
DBPre ==
    /\ db_pc \in {"idle", "done"}
    /\ db_clusters' = << >>
    /\ db_clusters_idxs' = << >>
    /\ db_noisey_idxs' = << >>
    /\ db_runs' = 0
    /\ db_pc' = "idle"
    /\ UNCHANGED <<db_min_mems, db_max_dist, db_column, db_cluster_ids,
                   db_seeds, db_stale, db_cluster_id, db_i, db_si, db_n>>
    /\ UNCHANGED notDB

\* operator(): entry, the locals are set up.
DBBegin ==
    /\ db_pc \in {"idle", "done"}
    /\ db_runs < DBMaxRuns
    /\ \E column \in DBColumns :
          /\ db_column' = column
          /\ db_cluster_ids' = [k \in 1..Len(column) |-> UNCLASSIFIED]
    /\ db_seeds' = << >>
    /\ db_stale' = 0
    /\ db_cluster_id' = 0
    /\ db_i' = 0
    /\ db_si' = 0
    /\ db_n' = 0
    /\ db_runs' = db_runs + 1
    /\ db_pc' = "scan"
    /\ UNCHANGED <<db_min_mems, db_max_dist, db_clusters, db_clusters_idxs,
                   db_noisey_idxs>>
    /\ UNCHANGED notDB

\* operator()'s main loop: position i is already labeled.
DBScanSkip ==
    /\ db_pc = "scan"
    /\ db_i < Len(db_column)
    /\ At(db_cluster_ids, db_i) # UNCLASSIFIED
    /\ db_i' = db_i + 1
    /\ UNCHANGED <<db_min_mems, db_max_dist, db_clusters, db_clusters_idxs,
                   db_noisey_idxs, db_column, db_cluster_ids, db_seeds,
                   db_stale, db_cluster_id, db_si, db_n, db_runs, db_pc>>
    /\ UNCHANGED notDB

\* expand_cluster_: the neighbourhood is too small, the position is NOISE.
DBExpandNoise ==
    /\ db_pc = "scan"
    /\ db_i < Len(db_column)
    /\ At(db_cluster_ids, db_i) = UNCLASSIFIED
    /\ LET seeds == calculate_cluster_(db_column, db_i, db_max_dist)
       IN  /\ Len(seeds) < db_min_mems
           /\ db_seeds' = seeds
           /\ db_cluster_ids' = SetAt(db_cluster_ids, db_i, NOISE)
    /\ db_i' = db_i + 1
    /\ UNCHANGED <<db_min_mems, db_max_dist, db_clusters, db_clusters_idxs,
                   db_noisey_idxs, db_column, db_stale, db_cluster_id, db_si,
                   db_n, db_runs, db_pc>>
    /\ UNCHANGED notDB

\* expand_cluster_: a core point starts a cluster; its neighbourhood is
\* labeled and the entry found by value equality is erased from the work list.
DBExpandCore ==
    /\ db_pc = "scan"
    /\ db_i < Len(db_column)
    /\ At(db_cluster_ids, db_i) = UNCLASSIFIED
    /\ LET seeds == calculate_cluster_(db_column, db_i, db_max_dist)
           core_index == CoreIndex(db_column, db_i, seeds)
       IN  /\ Len(seeds) >= db_min_mems
           /\ Len(seeds) > 0
           /\ db_cluster_ids' = LabelSeeds(db_cluster_ids, seeds, db_cluster_id)
           /\ db_seeds' = Erase(seeds, core_index)
           /\ db_stale' = seeds[Len(seeds)]
           /\ db_n' = Len(seeds)
    /\ db_si' = 0
    /\ db_pc' = "grow"
    /\ UNCHANGED <<db_min_mems, db_max_dist, db_clusters, db_clusters_idxs,
                   db_noisey_idxs, db_column, db_cluster_id, db_i, db_runs>>
    /\ UNCHANGED notDB

\* The growth loop's body for seeds[i], i within the work list.
DBGrow ==
    /\ db_pc = "grow"
    /\ db_si < db_n
    /\ db_si < Len(db_seeds)
    /\ LET r == GrowBody(db_column, At(db_seeds, db_si), db_cluster_ids,
                         db_seeds, db_cluster_id, db_min_mems, db_max_dist)
       IN  /\ db_cluster_ids' = r[1]
           /\ db_seeds' = r[2]
           /\ db_n' = NextBound(db_n, db_seeds, r[2])
    /\ db_si' = db_si + 1
    /\ UNCHANGED <<db_min_mems, db_max_dist, db_clusters, db_clusters_idxs,
                   db_noisey_idxs, db_column, db_stale, db_cluster_id, db_i,
                   db_runs, db_pc>>
    /\ UNCHANGED notDB

\* The growth loop's body for seeds[i] with i = seeds.size(): a read past the
\* end of the work list.  The storage still holds the neighbourhood's old
\* last entry there, which an unchecked build reads.
DBGrowPastEnd ==
    /\ db_pc = "grow"
    /\ db_si < db_n
    /\ db_si >= Len(db_seeds)
    /\ LET r == GrowBody(db_column, db_stale, db_cluster_ids,
                         db_seeds, db_cluster_id, db_min_mems, db_max_dist)
       IN  /\ db_cluster_ids' = r[1]
           /\ db_seeds' = r[2]
           /\ db_n' = NextBound(db_n, db_seeds, r[2])
    /\ db_si' = db_si + 1
    /\ UNCHANGED <<db_min_mems, db_max_dist, db_clusters, db_clusters_idxs,
                   db_noisey_idxs, db_column, db_stale, db_cluster_id, db_i,
                   db_runs, db_pc>>
    /\ UNCHANGED notDB

\* The same read in a build that checks vector subscripts: the call aborts.
DBGrowAbort ==
    /\ db_pc = "grow"
    /\ db_si < db_n
    /\ db_si >= Len(db_seeds)
    /\ db_pc' = "abort"
    /\ UNCHANGED <<db_min_mems, db_max_dist, db_clusters, db_clusters_idxs,
                   db_noisey_idxs, db_column, db_cluster_ids, db_seeds,
                   db_stale, db_cluster_id, db_i, db_si, db_n, db_runs>>
    /\ UNCHANGED notDB

\* expand_cluster_ returns true: the next cluster id, the next position.
DBGrowEnd ==
    /\ db_pc = "grow"
    /\ db_si >= db_n
    /\ db_cluster_id' = db_cluster_id + 1
    /\ db_i' = db_i + 1
    /\ db_pc' = "scan"
    /\ UNCHANGED <<db_min_mems, db_max_dist, db_clusters, db_clusters_idxs,
                   db_noisey_idxs, db_column, db_cluster_ids, db_seeds,
                   db_stale, db_si, db_n, db_runs>>
    /\ UNCHANGED notDB

\* operator()'s tail: the lists are resized to cluster_id clusters and every
\* position is appended to its cluster's lists or to the noise list.
DBPartition ==
    /\ db_pc = "scan"
    /\ db_i >= Len(db_column)
    /\ LET r == BuildLists(0, db_cluster_ids,
                           Resize(db_clusters, db_cluster_id),
                           Resize(db_clusters_idxs, db_cluster_id),
                           db_noisey_idxs)
       IN  /\ db_clusters' = r[1]
           /\ db_clusters_idxs' = r[2]
           /\ db_noisey_idxs' = r[3]
    /\ db_pc' = "done"
    /\ UNCHANGED <<db_min_mems, db_max_dist, db_column, db_cluster_ids,
                   db_seeds, db_stale, db_cluster_id, db_i, db_si, db_n,
                   db_runs>>
    /\ UNCHANGED notDB

\* col_s / cluster_id with cluster_id = 0: an integer division by zero, which
\* traps where the hardware traps (the other outcome is DBPartition).
DBDivideByZero ==
    /\ db_pc = "scan"
    /\ db_i >= Len(db_column)
    /\ db_cluster_id = 0
    /\ db_pc' = "abort"
    /\ UNCHANGED <<db_min_mems, db_max_dist, db_clusters, db_clusters_idxs,
                   db_noisey_idxs, db_column, db_cluster_ids, db_seeds,
                   db_stale, db_cluster_id, db_i, db_si, db_n, db_runs>>
    /\ UNCHANGED notDB

DBNext ==
    \/ DBPre
    \/ DBBegin
    \/ DBScanSkip
    \/ DBExpandNoise
    \/ DBExpandCore
    \/ DBGrow
    \/ DBGrowPastEnd
    \/ DBGrowAbort
    \/ DBGrowEnd
    \/ DBPartition
    \/ DBDivideByZero

\* A DBSCANVisitor alone: the other visitors are not constructed.
DBStart == DBInit /\ KMOff /\ APOff /\ MSOff /\ FFTOff /\ RTOff /\ ParOff
    /\ CVOff

SpecDBSCAN == DBStart /\ [][DBNext]_vars

\* ------------------------------------------------------------------------
\* Claims about DBSCANVisitor
\* ------------------------------------------------------------------------

\* Every position the published DBSCAN lists hold, clusters first.
DBPublished == Flatten(db_clusters_idxs) \o db_noisey_idxs

\* C1: whenever apply completes on a fresh or reset DBSCAN visitor, every
\* position 0 .. n-1 of the column appears exactly once in the cluster
\* position lists and the noise list together (so never in two clusters and
\* never in a cluster and in the noise list), and no position is still
\* UNCLASSIFIED when the lists are built.
C1_DBSCANPartition ==
    (db_pc = "done" /\ db_runs = 1) =>
        /\ \A p \in 0..(Len(db_column) - 1) : Count(DBPublished, p) = 1
        /\ Len(DBPublished) = Len(db_column)
        /\ \A p \in 0..(Len(db_column) - 1) :
              At(db_cluster_ids, p) # UNCLASSIFIED

\* C1's case: a completed apply on a fresh or reset visitor that published
\* both a cluster and a noise position.
C1_Witness ==
    /\ db_pc = "done"
    /\ db_runs = 1
    /\ Len(db_column) = 3
    /\ Len(db_clusters_idxs) >= 1
    /\ Len(db_noisey_idxs) >= 1

\* C2: with min_mems = 2, max_dist = 1 and the squared-difference distance
\* on the column {0,0.5,1,10,10.5,11,50}, apply on a fresh or reset visitor
\* yields exactly two clusters, the positions of {0,0.5,1} and of
\* {10,10.5,11}, and the noise list is exactly the position of 50.
C2_DBSCANExample ==
    (/\ db_pc = "done"
     /\ db_runs = 1
     /\ db_column = DBExampleColumn
     /\ db_min_mems = 2
     /\ db_max_dist = 4) =>
        /\ db_clusters_idxs = << <<0, 1, 2>>, <<3, 4, 5>> >>
        /\ db_noisey_idxs = <<6>>

\* C2's case: the example has run to completion.
C2_Witness ==
    /\ db_pc = "done"
    /\ db_runs = 1
    /\ db_column = DBExampleColumn
    /\ db_min_mems = 2
    /\ db_max_dist = 4
    /\ Len(db_clusters_idxs) = 2

\* ------------------------------------------------------------------------
\* KMeansVisitor
\* ------------------------------------------------------------------------

\* The template parameter K.
KMeansK == 2

\* std::numeric_limits<double>::max(), in the units of the squared
\* distances of this model: above the squared distance of any two ordinary
\* values, and not above that of an ordinary value and Huge.
DblMax == 1000000

\* A finite value so large that its squared difference from an ordinary
\* value, or from a mean of itself and ordinary values, is not below the
\* largest double (1e200 is one: its square overflows).
Huge == 700 * 60

\* Bound: the longest column KMeans is explored on.
KMMaxLen == 2

\* Bound: the largest iteration limit a visitor is constructed with.
KMMaxIter == 2

\* Bound: how many apply calls one visitor sees.
KMMaxRuns == 2

\* The values a KMeans column is drawn from, in sixtieths, so that every
\* mean of up to six of them is a whole number of sixtieths.
KMValues == {0, 60}

\* Columns with missing values.
KMNaNColumns ==
    {<<NaN>>, <<NaN, NaN>>, <<NaN, 0>>, <<NaN, 60>>, <<60, NaN>>}

\* Columns with a huge value.
KMHugeColumns == {<<0, Huge>>}

\* The columns KMeans is applied to.  rd_gen draws from 0 .. col_s - 1, so
\* a column has at least one position.
KMColumns ==
    (SeqsUpTo(KMValues, KMMaxLen) \ {<< >>})
        \cup KMNaNColumns \cup KMHugeColumns

\* The sizes of these columns.
KMSizes == {Len(column) : column \in KMColumns}

\* The K positions rd_gen(gen) may return on a column of col_s positions.
\* gen is constructed anew in every call: from seed_ when there is one, so
\* the draws for one column size are the same in every call, and from
\* std::random_device otherwise.
Draws(seeded, draws, col_s) ==
    IF seeded /\ draws[col_s] # << >>
    THEN {draws[col_s]}
    ELSE [1..KMeansK -> 0..(col_s - 1)]

\* calc_k_means_'s first loop: each mean takes the sampled value unless that
\* value is missing, in which case it keeps the value it had.
InitMeans(result, column, samples) ==
    [k \in 1..KMeansK |->
        IF ~is_nan__(At(column, samples[k]))
        THEN At(column, samples[k])
        ELSE result[k]]

\* The nearest-centroid scan from cluster on: the index of the first
\* centroid whose distance is strictly smaller than every earlier one.
RECURSIVE NearestFrom(_, _, _, _, _)
NearestFrom(cluster, value, result, best_distance, best_cluster) ==
    IF cluster >= KMeansK THEN best_cluster
    ELSE LET distance == dfunc_(value, At(result, cluster))
         IN  IF Less(distance, best_distance)
             THEN NearestFrom(cluster + 1, value, result, distance, cluster)
             ELSE NearestFrom(cluster + 1, value, result, best_distance,
                              best_cluster)

\* A scan that never leaves the first centroid.
BestClusterFirst(value, result) == 0

\* calc_k_means_'s best_cluster for one value.
BestCluster(value, result) == NearestFrom(0, value, result, DblMax, 0)

\* Whether calc_clusters_'s scan assigns min_idx for this value: some
\* centroid's distance is below the maximum.
MinIdxAssigned(value, result) ==
    \E i \in 0..(KMeansK - 1) : Less(dfunc_(value, At(result, i)), DblMax)

\* calc_clusters_'s min_idx for one value.  min_idx is declared without an
\* initial value, so when no distance is below the maximum the index used
\* is whatever the variable holds: garbage.
MinIdx(value, result, garbage) ==
    IF MinIdxAssigned(value, result)
    THEN NearestFrom(0, value, result, DblMax, 0)
    ELSE garbage

\* calc_k_means_'s assignment loop from point on: <<new_means, counts>>.
RECURSIVE Assign(_, _, _, _, _)
Assign(point, column, result, new_means, counts) ==
    IF point >= Len(column) THEN <<new_means, counts>>
    ELSE LET value == At(column, point)
         IN  IF ~is_nan__(value)
             THEN LET best_cluster == BestCluster(value, result)
                  IN  Assign(point + 1, column, result,
                             SetAt(new_means, best_cluster,
                                   At(new_means, best_cluster) + value),
                             SetAt(counts, best_cluster,
                                   At(counts, best_cluster) + 1))
             ELSE Assign(point + 1, column, result, new_means, counts)

\* std::max<double>(1.0, counts[cluster])
Divisor(count) == IF count > 1 THEN count ELSE 1

\* A test that finds every centroid moved.
MovedAlways(value, result) == TRUE

\* dfunc_(value, result) > 0.0000001: with whole sixtieths, any difference.
Moved(value, result) == dfunc_(value, result) > 0

\* One round of calc_k_means_'s loop: <<result, done>> afterwards.
Round(column, result) ==
    LET zero == [k \in 1..KMeansK |-> 0]
        a == Assign(0, column, result, zero, zero)
        new_means == a[1]
        counts == a[2]
        value == [k \in 1..KMeansK |-> new_means[k] \div Divisor(counts[k])]
    IN  << [k \in 1..KMeansK |->
               IF Moved(value[k], result[k]) THEN value[k] ELSE result[k]],
           \A k \in 1..KMeansK : ~Moved(value[k], result[k]) >>

\* What an entry of a cluster's value list refers to: the centroid
\* result_[i], or the column element at position j.
CentroidRef(i) == <<"result_", i>>
ColumnRef(j) == <<"column", j>>

\* calc_clusters_'s second loop from position j on: <<clusters,
\* clusters_idxs>> afterwards.
RECURSIVE Separate(_, _, _, _, _, _)
Separate(j, column, result, garbage, clusters, clusters_idxs) ==
    IF j >= Len(column) THEN <<clusters, clusters_idxs>>
    ELSE LET value == At(column, j)
         IN  IF ~is_nan__(value)
             THEN LET min_idx == MinIdx(value, result, garbage)
                  IN  Separate(j + 1, column, result, garbage,
                          SetAt(clusters, min_idx,
                                Append(At(clusters, min_idx), ColumnRef(j))),
                          SetAt(clusters_idxs, min_idx,
                                Append(At(clusters_idxs, min_idx), j)))
             ELSE Separate(j + 1, column, result, garbage, clusters,
                           clusters_idxs)

\* calc_clusters_: local lists, the centroid's address first in each value
\* list, then swapped into the members.
calc_clusters_(column, result, garbage) ==
    Separate(0, column, result, garbage,
             [i \in 1..KMeansK |-> <<CentroidRef(i - 1)>>],
             [i \in 1..KMeansK |-> << >>])

KMInit ==
    /\ km_iter_num \in 1..KMMaxIter
    /\ km_cc \in BOOLEAN
    /\ km_result = [k \in 1..KMeansK |-> 0]
    /\ km_clusters = [k \in 1..KMeansK |-> << >>]
    /\ km_clusters_idxs = [k \in 1..KMeansK |-> << >>]
    /\ km_column = << >>
    /\ km_seeded \in BOOLEAN
    /\ km_draws = [n \in KMSizes |-> << >>]
    /\ km_samples = << >>
    /\ km_iter = 0
    /\ km_runs = 0
    /\ km_from_reset = FALSE
    /\ km_pc = "idle"

\* pre(): the membership lists are cleared; result_ is not touched.
KMPre ==
    /\ km_pc \in {"idle", "done"}
    /\ km_clusters' = [k \in 1..KMeansK |-> << >>]
    /\ km_clusters_idxs' = [k \in 1..KMeansK |-> << >>]
    /\ km_from_reset' = TRUE
    /\ km_pc' = "idle"
    /\ UNCHANGED <<km_iter_num, km_cc, km_seeded, km_draws, km_result,
                   km_column, km_samples, km_iter, km_runs>>
    /\ UNCHANGED notKM

\* operator() and calc_k_means_ up to its loop: K positions are sampled and
\* the means are set from them.
KMBegin ==
    /\ km_pc \in {"idle", "done"}
    /\ km_runs < KMMaxRuns
    /\ \E column \in KMColumns :
       \E samples \in Draws(km_seeded, km_draws, Len(column)) :
          /\ km_column' = column
          /\ km_samples' = samples
          /\ km_draws' = [n \in KMSizes |->
                             IF km_seeded /\ n = Len(column)
                             THEN samples ELSE km_draws[n]]
          /\ km_result' = InitMeans(km_result, column, samples)
    /\ km_iter' = 0
    /\ km_runs' = km_runs + 1
    /\ km_from_reset' = (km_pc = "idle" /\ km_from_reset)
    /\ km_pc' = "loop"
    /\ UNCHANGED <<km_iter_num, km_cc, km_seeded, km_clusters,
                   km_clusters_idxs>>
    /\ UNCHANGED notKM

\* One round of calc_k_means_'s loop; the loop is left when no mean moved.
KMRound ==
    /\ km_pc = "loop"
    /\ km_iter < km_iter_num
    /\ LET r == Round(km_column, km_result)
       IN  /\ km_result' = r[1]
           /\ km_pc' = IF r[2] THEN "clusters" ELSE "loop"
           /\ km_iter' = IF r[2] THEN km_iter ELSE km_iter + 1
    /\ UNCHANGED <<km_iter_num, km_cc, km_seeded, km_draws, km_clusters,
                   km_clusters_idxs, km_column, km_samples, km_runs,
                   km_from_reset>>
    /\ UNCHANGED notKM

\* calc_k_means_'s loop ends at the iteration limit.
KMLimit ==
    /\ km_pc = "loop"
    /\ km_iter >= km_iter_num
    /\ km_pc' = "clusters"
    /\ UNCHANGED <<km_iter_num, km_cc, km_seeded, km_draws, km_result,
                   km_clusters, km_clusters_idxs, km_column, km_samples,
                   km_iter, km_runs, km_from_reset>>
    /\ UNCHANGED notKM

\* Whether calc_clusters_ reads min_idx before anything was assigned to it.
ReadsUnsetMinIdx(column, result) ==
    \E j \in 0..(Len(column) - 1) :
        /\ ~is_nan__(At(column, j))
        /\ ~MinIdxAssigned(At(column, j), result)

\* operator()'s tail with cc_ set: calc_clusters_.  An unset min_idx that is
\* read holds an index of a cluster.
KMCalcClusters ==
    /\ km_pc = "clusters"
    /\ km_cc
    /\ \E garbage \in 0..(KMeansK - 1) :
          LET r == calc_clusters_(km_column, km_result, garbage)
          IN  /\ km_clusters' = r[1]
              /\ km_clusters_idxs' = r[2]
    /\ km_pc' = "done"
    /\ UNCHANGED <<km_iter_num, km_cc, km_seeded, km_draws, km_result,
                   km_column, km_samples, km_iter, km_runs, km_from_reset>>
    /\ UNCHANGED notKM

\* operator()'s tail with cc_ set, when an unset min_idx that is read holds
\* no index of a cluster: clusters[min_idx] is outside the array and the
\* call does not return.
KMCalcClustersOutside ==
    /\ km_pc = "clusters"
    /\ km_cc
    /\ ReadsUnsetMinIdx(km_column, km_result)
    /\ km_pc' = "abort"
    /\ UNCHANGED <<km_iter_num, km_cc, km_seeded, km_draws, km_result,
                   km_clusters, km_clusters_idxs, km_column, km_samples,
                   km_iter, km_runs, km_from_reset>>
    /\ UNCHANGED notKM

\* operator()'s tail with cc_ clear.
KMNoClusters ==
    /\ km_pc = "clusters"
    /\ ~km_cc
    /\ km_pc' = "done"
    /\ UNCHANGED <<km_iter_num, km_cc, km_seeded, km_draws, km_result,
                   km_clusters, km_clusters_idxs, km_column, km_samples,
                   km_iter, km_runs, km_from_reset>>
    /\ UNCHANGED notKM

KMNext ==
    \/ KMPre
    \/ KMBegin
    \/ KMRound
    \/ KMLimit
    \/ KMCalcClusters
    \/ KMCalcClustersOutside
    \/ KMNoClusters

\* A KMeansVisitor alone: the other visitors are not constructed.
KMStart == KMInit /\ DBOff /\ APOff /\ MSOff /\ FFTOff /\ RTOff /\ ParOff
    /\ CVOff

SpecKMeans == KMStart /\ [][KMNext]_vars

\* calc_k_means_'s loop from round iter on: the means it leaves.
RECURSIVE Iterate(_, _, _, _)
Iterate(iter, iter_num, column, result) ==
    IF iter >= iter_num THEN result
    ELSE LET r == Round(column, result)
         IN  IF r[2] THEN r[1] ELSE Iterate(iter + 1, iter_num, column, r[1])

\* calc_k_means_ as a whole, on a visitor whose means are result.
calc_k_means_(iter_num, column, samples, result) ==
    Iterate(0, iter_num, column, InitMeans(result, column, samples))

\* ------------------------------------------------------------------------
\* Claims about KMeansVisitor
\* ------------------------------------------------------------------------

\* The centroid nearest to value: no centroid is nearer and every centroid
\* of a lower index is farther.
KMNearest(value, result) ==
    CHOOSE c \in 0..(KMeansK - 1) :
        /\ \A d \in 0..(KMeansK - 1) :
              dfunc_(value, At(result, c)) <= dfunc_(value, At(result, d))
        /\ \A d \in 0..(c - 1) :
              dfunc_(value, At(result, c)) < dfunc_(value, At(result, d))

\* C3: after KMeans apply with membership materialization on, every
\* non-missing position is in exactly one cluster's position list, the list
\* of the final centroid nearest to its value (the lowest cluster index on a
\* tie), and no missing position is in any list.
C3_KMeansMembership ==
    (km_pc = "done" /\ km_cc) =>
        \A j \in 0..(Len(km_column) - 1) :
        \A c \in 0..(KMeansK - 1) :
            Count(At(km_clusters_idxs, c), j) =
                IF /\ ~is_nan__(At(km_column, j))
                   /\ c = KMNearest(At(km_column, j), km_result)
                THEN 1 ELSE 0

\* What a fresh visitor with the same parameters publishes for the column
\* and the sampled positions of the last apply.
KMFreshResult ==
    calc_k_means_(km_iter_num, km_column, km_samples,
                  [k \in 1..KMeansK |-> 0])

\* C6 (KMeans): reset followed by apply on a seeded visitor that was applied
\* before publishes the same means and the same membership lists as the
\* same apply on a freshly constructed visitor with the same parameters and
\* seed (so with the same sampled positions), also when the column holds
\* missing values.
C6_KMeansResetAsFresh ==
    (km_pc = "done" /\ km_from_reset /\ km_runs >= 2 /\ km_seeded) =>
        /\ km_result = KMFreshResult
        /\ km_cc =>
              \E garbage \in 0..(KMeansK - 1) :
                  /\ km_clusters =
                         calc_clusters_(km_column, KMFreshResult, garbage)[1]
                  /\ km_clusters_idxs =
                         calc_clusters_(km_column, KMFreshResult, garbage)[2]


\* ------------------------------------------------------------------------
\* AffinityPropVisitor
\* ------------------------------------------------------------------------

\* Damping factors are multiples of 1 / APDen.
APDen == 2

\* Bound: the longest column AffinityProp is explored on.
APMaxLen == 2

\* Bound: the largest iteration count a visitor is constructed with.
APMaxIter == 2

\* Bound: how many apply calls one visitor sees.
APMaxRuns == 2

\* Similarities, availabilities and responsibilities are kept times APScale:
\* one round divides by APDen twice, so after APMaxIter rounds of damping
\* every entry is still a whole number.
APScale == (APDen * APDen) ^ APMaxIter

\* The values an AffinityProp column is drawn from.
APValues == {0, 3}

\* Two separated groups, and columns with a missing value.
APExtraColumns ==
    {<<0, 1, 9, 10>>, <<NaN, 0, 3>>, <<0, 3, NaN>>, <<NaN, 0, 1, 9>>,
     <<NaN, 0>>}

\* The columns AffinityProp is applied to.
APColumns == SeqsUpTo(APValues, APMaxLen) \cup APExtraColumns

\* x + y and x - y on doubles.
Add(x, y) == IF is_nan__(x) \/ is_nan__(y) THEN NaN ELSE x + y
Sub(x, y) == IF is_nan__(x) \/ is_nan__(y) THEN NaN ELSE x - y

\* std::max(0.0, x), which is (0.0 < x) ? x : 0.0
Max0(x) == IF Less(0, x) THEN x ELSE 0

\* std::min(0.0, x), which is (x < 0.0) ? x : 0.0
Min0(x) == IF Less(x, 0) THEN x ELSE 0

\* one_df * x + dfactor_ * old
Damp(dfactor, x, old) ==
    IF is_nan__(x) \/ is_nan__(old) THEN NaN
    ELSE ((APDen - dfactor) * x + dfactor * old) \div APDen

\* The largest element of a non-empty set of numbers.
MaxOf(S) == CHOOSE x \in S : \A y \in S : y <= x

\* The smallest element of a non-empty set of numbers.
MinOf(S) == CHOOSE x \in S : \A y \in S : x <= y

\* The sum of f[k] over k in S.
RECURSIVE SumOver(_, _)
SumOver(f, S) ==
    IF S = {} THEN 0
    ELSE LET k == CHOOSE k \in S : TRUE
         IN  f[k] + SumOver(f, S \ {k})

\* i_idx: where row i of the compressed upper-triangular table starts,
\* less i.
RowIdx(i, col_s) == (i * col_s) - ((i * (i + 1)) \div 2)

\* -dfunc_(x, y), times APScale.
Similarity(x, y) ==
    IF is_nan__(dfunc_(x, y)) THEN NaN ELSE (0 - dfunc_(x, y)) * APScale

\* A min_dist that is minus the smallest distance of two distinct positions:
\* the largest similarity.
MinDistOfDistances(column) ==
    MaxOf({0 - (DblMax * APScale)} \cup
          {Similarity(At(column, i), At(column, j)) :
               <<i, j>> \in {p \in (0..(Len(column) - 1)) \X
                                    (0..(Len(column) - 1)) :
                                 /\ p[1] < p[2]
                                 /\ ~is_nan__(dfunc_(At(column, p[1]),
                                                     At(column, p[2])))}})

\* get_similarity_'s min_dist: the smallest similarity of two distinct
\* positions that is not NaN, the largest double when there is none.
MinDist(column) ==
    MinOf({DblMax * APScale} \cup
          {Similarity(At(column, i), At(column, j)) :
               <<i, j>> \in {p \in (0..(Len(column) - 1)) \X
                                    (0..(Len(column) - 1)) :
                                 /\ p[1] < p[2]
                                 /\ ~is_nan__(dfunc_(At(column, p[1]),
                                                     At(column, p[2])))}})

\* get_similarity_: the table, entry RowIdx(i) + j for i <= j.
get_similarity_(column) ==
    LET col_s == Len(column)
    IN  [idx \in 0..(((col_s * (col_s + 1)) \div 2) - 1) |->
            LET i == CHOOSE i \in 0..(col_s - 1) :
                        /\ RowIdx(i, col_s) + i <= idx
                        /\ idx <= RowIdx(i, col_s) + col_s - 1
                j == idx - RowIdx(i, col_s)
            IN  IF i = j THEN MinDist(column)
                ELSE Similarity(At(column, i), At(column, j))]

\* The similarity the responsibility update reads for row i and column jj.
SimilRead(simil, col_s, i, jj) == simil[RowIdx(i, col_s) + jj]

\* The responsibility loop's max_diff for i and j.
MaxDiff(simil, avail, col_s, i, j) ==
    MaxOf({0 - (DblMax * APScale)} \cup
          {Add(SimilRead(simil, col_s, i, jj), avail[jj * col_s + i]) :
               jj \in {jj \in 0..(col_s - 1) :
                          /\ jj # j
                          /\ ~is_nan__(SimilRead(simil, col_s, i, jj))}})

\* The responsibility update of one round.
UpdateRespon(dfactor, simil, avail, respon, col_s) ==
    [j_idx \in 0..(col_s * col_s - 1) |->
        LET j == j_idx \div col_s
            i == j_idx % col_s
        IN  Damp(dfactor,
                 Sub(SimilRead(simil, col_s, i, j),
                     MaxDiff(simil, avail, col_s, i, j)),
                 respon[j_idx])]

\* The availability update of one round, from the updated responsibilities.
UpdateAvail(dfactor, avail, respon, col_s) ==
    [s2 \in 0..(col_s * col_s - 1) |->
        LET j == s2 \div col_s
            i == s2 % col_s
            s1 == j * col_s
            pos == [ii \in 0..(col_s - 1) |-> Max0(respon[s1 + ii])]
            sum == SumOver(pos, (0..(col_s - 1)) \ {i, j})
        IN  IF i = j
            THEN Damp(dfactor, sum, avail[s2])
            ELSE Damp(dfactor, Min0(Add(respon[s1 + j], sum)), avail[s2])]

\* What an entry of result_ refers to: the column element at position i,
\* whose value is the second component.
ExemplarRef(column, i) == <<i, At(column, i)>>

\* operator()'s loop over the diagonal from position i on: the exemplars.
RECURSIVE ExemplarsFrom(_, _, _, _)
ExemplarsFrom(i, column, respon, avail) ==
    IF i >= Len(column) THEN << >>
    ELSE LET idx == i * Len(column) + i
         IN  IF Less(0, Add(respon[idx], avail[idx]))
             THEN <<ExemplarRef(column, i)>> \o
                      ExemplarsFrom(i + 1, column, respon, avail)
             ELSE ExemplarsFrom(i + 1, column, respon, avail)

\* calc_clusters_'s scan of the centers from i on.
RECURSIVE APNearestFrom(_, _, _, _, _)
APNearestFrom(i, j_val, result, min_dist, min_idx) ==
    IF i >= Len(result) THEN min_idx
    ELSE LET dist == dfunc_(j_val, At(result, i)[2])
         IN  IF Less(dist, min_dist)
             THEN APNearestFrom(i + 1, j_val, result, dist, i)
             ELSE APNearestFrom(i + 1, j_val, result, min_dist, min_idx)

\* calc_clusters_'s min_idx for one value.
APMinIdx(j_val, result) ==
    APNearestFrom(1, j_val, result, dfunc_(j_val, At(result, 0)[2]), 0)

\* calc_clusters_'s loop over the column from position j on.
RECURSIVE APSeparate(_, _, _, _, _)
APSeparate(j, column, result, clusters, clusters_idxs) ==
    IF j >= Len(column) THEN <<clusters, clusters_idxs>>
    ELSE LET min_idx == APMinIdx(At(column, j), result)
         IN  APSeparate(j + 1, column, result,
                 SetAt(clusters, min_idx,
                       Append(At(clusters, min_idx), ColumnRef(j))),
                 SetAt(clusters_idxs, min_idx,
                       Append(At(clusters_idxs, min_idx), j)))

\* AffinityPropVisitor::calc_clusters_: nothing without a center; otherwise
\* the member lists are resized and every position is appended to a list.
APcalc_clusters_(column, result, clusters, clusters_idxs) ==
    IF Len(result) = 0 THEN <<clusters, clusters_idxs>>
    ELSE APSeparate(0, column, result,
                    Resize(clusters, Len(result)),
                    Resize(clusters_idxs, Len(result)))

APInit ==
    /\ ap_iter_num \in 1..APMaxIter
    /\ ap_cc \in BOOLEAN
    /\ ap_dfactor \in 0..(APDen - 1)
    /\ ap_result = << >>
    /\ ap_clusters = << >>
    /\ ap_clusters_idxs = << >>
    /\ ap_column = << >>
    /\ ap_simil = << >>
    /\ ap_avail = << >>
    /\ ap_respon = << >>
    /\ ap_m = 0
    /\ ap_runs = 0
    /\ ap_pc = "idle"

\* pre()
APPre ==
    /\ ap_pc \in {"idle", "done"}
    /\ ap_result' = << >>
    /\ ap_clusters' = << >>
    /\ ap_clusters_idxs' = << >>
    /\ ap_runs' = 0
    /\ ap_pc' = "idle"
    /\ UNCHANGED <<ap_iter_num, ap_cc, ap_dfactor, ap_column, ap_simil,
                   ap_avail, ap_respon, ap_m>>
    /\ UNCHANGED notAP

\* operator() up to get_avail_and_respon_'s loop.
APBegin ==
    /\ ap_pc \in {"idle", "done"}
    /\ ap_runs < APMaxRuns
    /\ \E column \in APColumns :
          /\ ap_column' = column
          /\ ap_simil' = get_similarity_(column)
          /\ ap_avail' = [k \in 0..(Len(column) * Len(column) - 1) |-> 0]
          /\ ap_respon' = [k \in 0..(Len(column) * Len(column) - 1) |-> 0]
    /\ ap_m' = 0
    /\ ap_runs' = ap_runs + 1
    /\ ap_pc' = "loop"
    /\ UNCHANGED <<ap_iter_num, ap_cc, ap_dfactor, ap_result, ap_clusters,
                   ap_clusters_idxs>>
    /\ UNCHANGED notAP

\* One round of get_avail_and_respon_'s loop.
APRound ==
    /\ ap_pc = "loop"
    /\ ap_m < ap_iter_num
    /\ LET respon == UpdateRespon(ap_dfactor, ap_simil, ap_avail, ap_respon,
                                  Len(ap_column))
       IN  /\ ap_respon' = respon
           /\ ap_avail' = UpdateAvail(ap_dfactor, ap_avail, respon,
                                      Len(ap_column))
    /\ ap_m' = ap_m + 1
    /\ UNCHANGED <<ap_iter_num, ap_cc, ap_dfactor, ap_result, ap_clusters,
                   ap_clusters_idxs, ap_column, ap_simil, ap_runs, ap_pc>>
    /\ UNCHANGED notAP

\* operator()'s tail with cc_ set: the exemplars are appended to result_ and
\* calc_clusters_ runs.
APCalcClusters ==
    /\ ap_pc = "loop"
    /\ ap_m >= ap_iter_num
    /\ ap_cc
    /\ LET result == ap_result \o
                         ExemplarsFrom(0, ap_column, ap_respon, ap_avail)
           r == APcalc_clusters_(ap_column, result, ap_clusters,
                                 ap_clusters_idxs)
       IN  /\ ap_result' = result
           /\ ap_clusters' = r[1]
           /\ ap_clusters_idxs' = r[2]
    /\ ap_simil' = << >>
    /\ ap_avail' = << >>
    /\ ap_respon' = << >>
    /\ ap_m' = 0
    /\ ap_pc' = "done"
    /\ UNCHANGED <<ap_iter_num, ap_cc, ap_dfactor, ap_column, ap_runs>>
    /\ UNCHANGED notAP

\* operator()'s tail with cc_ clear: the exemplars are appended to result_.
APNoClusters ==
    /\ ap_pc = "loop"
    /\ ap_m >= ap_iter_num
    /\ ~ap_cc
    /\ ap_result' = ap_result \o
                        ExemplarsFrom(0, ap_column, ap_respon, ap_avail)
    /\ ap_simil' = << >>
    /\ ap_avail' = << >>
    /\ ap_respon' = << >>
    /\ ap_m' = 0
    /\ ap_pc' = "done"
    /\ UNCHANGED <<ap_iter_num, ap_cc, ap_dfactor, ap_clusters,
                   ap_clusters_idxs, ap_column, ap_runs>>
    /\ UNCHANGED notAP

APNext ==
    \/ APPre
    \/ APBegin
    \/ APRound
    \/ APCalcClusters
    \/ APNoClusters

\* An AffinityPropVisitor alone: the other visitors are not constructed.
APStart == APInit /\ DBOff /\ KMOff /\ MSOff /\ FFTOff /\ RTOff /\ ParOff
    /\ CVOff

SpecAffinity == APStart /\ [][APNext]_vars

\* ------------------------------------------------------------------------
\* Claims about AffinityPropVisitor
\* ------------------------------------------------------------------------

\* The exemplars (indices into result) whose distance from value is a
\* number.
APComparable(value, result) ==
    {c \in 0..(Len(result) - 1) : ~is_nan__(dfunc_(value, At(result, c)[2]))}

\* The exemplar nearest to value: no exemplar is nearer and every exemplar
\* of a lower index is farther.
APNearest(value, result) ==
    CHOOSE c \in APComparable(value, result) :
        /\ \A d \in APComparable(value, result) :
              dfunc_(value, At(result, c)[2]) <= dfunc_(value, At(result, d)[2])
        /\ \A d \in APComparable(value, result) :
              d < c =>
                  dfunc_(value, At(result, c)[2]) <
                      dfunc_(value, At(result, d)[2])

\* How many times position p occurs in the position lists together.
APListed(p) == Count(Flatten(ap_clusters_idxs), p)

\* C4, for an apply on a fresh or reset visitor that publishes at least one
\* exemplar: with membership requested, every position of the column is in
\* exactly one cluster's position list, and that list is the one of the
\* exemplar nearest to its value (the lowest exemplar on a tie).
C4_AffinityMembership ==
    (ap_pc = "done" /\ ap_cc /\ ap_runs = 1 /\ Len(ap_result) >= 1) =>
        \A p \in 0..(Len(ap_column) - 1) :
            /\ APListed(p) = 1
            /\ APComparable(At(ap_column, p), ap_result) # {} =>
                  Count(At(ap_clusters_idxs,
                           APNearest(At(ap_column, p), ap_result)), p) = 1

\* get_avail_and_respon_'s loop from round m on: <<avail, respon>>.
RECURSIVE APIterate(_, _, _, _, _, _, _)
APIterate(m, iter_num, dfactor, simil, avail, respon, col_s) ==
    IF m >= iter_num THEN <<avail, respon>>
    ELSE LET r == UpdateRespon(dfactor, simil, avail, respon, col_s)
         IN  APIterate(m + 1, iter_num, dfactor, simil,
                       UpdateAvail(dfactor, avail, r, col_s), r, col_s)

\* What a fresh visitor with the same parameters publishes for the column
\* of the last apply: <<result_, clusters_, clusters_idxs_>>.
APFresh ==
    LET col_s == Len(ap_column)
        zero == [k \in 0..(col_s * col_s - 1) |-> 0]
        ar == APIterate(0, ap_iter_num, ap_dfactor,
                        get_similarity_(ap_column), zero, zero, col_s)
        result == ExemplarsFrom(0, ap_column, ar[2], ar[1])
        r == IF ap_cc
             THEN APcalc_clusters_(ap_column, result, << >>, << >>)
             ELSE << << >>, << >> >>
    IN  <<result, r[1], r[2]>>

\* C7 (AffinityProp): after two apply calls in a row with no reset between
\* them, the published exemplars, clusters and position lists are those the
\* second call alone produces on a fresh visitor.
C7_SecondApplyAlone ==
    (ap_pc = "done" /\ ap_runs = 2) =>
        <<ap_result, ap_clusters, ap_clusters_idxs>> = APFresh


\* ------------------------------------------------------------------------
\* MeanShiftVisitor
\* ------------------------------------------------------------------------
\* Column values are in twelfths, so distances (squared differences) are in
\* 1/144 and the mean of up to four column values is a whole number of
\* twelfths.  The kernel is mean_shift_kernel::uniform.

\* The 1.0 of uniform_kernel_'s d <= 1.0, as a distance.
KernelOne == 144

\* Bound: the longest column MeanShift is explored on.
MSMaxLen == 2

\* Bound: the largest max_iteration a visitor is constructed with.
MSMaxIter == 2

\* Bound: how many apply calls one visitor sees without a reset.
MSMaxRuns == 2

\* The values a MeanShift column is drawn from: 0 and 1.
MSValues == {0, 12}

\* A column with a far value, and columns with a missing value.
MSExtraColumns == {<<0, 12, 120>>, <<NaN, 0>>, <<0, NaN, 0>>}

\* The columns MeanShift is applied to.
MSColumns == SeqsUpTo(MSValues, MSMaxLen) \cup MSExtraColumns

\* <<kernel_bandwidth in twelfths, max_dist>>: bandwidth 1/12 and 1,
\* max_dist 25/144, 0.25 and 1.
MSParams == {<<1, 36>>, <<12, 36>>, <<12, 144>>, <<12, 25>>}

\* What a read of centriods past its end may yield.
MSGarbage == MSValues \cup {NaN}

\* radius: kband_ * 3.0, as a distance.
Radius(kband) == kband * 36

\* uniform_kernel_
uniform_kernel_(d) == IF LessEq(d, KernelOne) THEN 1 ELSE 0

\* The positions the inner loop of operator() adds up for val_to_shift:
\* those within the radius, each with its kernel weight (times dbl_sq_bw).
Weights(val_to_shift, column, radius) ==
    [j \in 0..(Len(column) - 1) |->
        IF LessEq(dfunc_(val_to_shift, At(column, j)), radius)
        THEN uniform_kernel_(dfunc_(val_to_shift, At(column, j)))
        ELSE 0]

\* new_val / total_w: the weighted average, NaN when total_w is zero.
NewVal(val_to_shift, column, radius) ==
    LET weight == Weights(val_to_shift, column, radius)
        within == {j \in 0..(Len(column) - 1) : weight[j] > 0}
        total_w == SumOver(weight, within)
        new_val == SumOver([j \in 0..(Len(column) - 1) |->
                               At(column, j) * weight[j]], within)
    IN  IF total_w = 0 THEN NaN ELSE new_val \div total_w

\* One pass with shift_ taking the candidate against the working value.
ShiftAllFromShifted(column, shifted, shifting, radius, max_dist) ==
    LET val == [i \in 1..Len(column) |->
                   NewVal(shifted[i], column, radius)]
        stops == [i \in 1..Len(column) |->
                     LessEq(dfunc_(val[i], shifted[i]), max_dist)]
    IN  << [i \in 1..Len(column) |->
               IF shifting[i] /\ ~stops[i] THEN val[i] ELSE shifted[i]],
           [i \in 1..Len(column) |-> shifting[i] /\ ~stops[i]] >>

\* One pass of operator()'s for loop over the positions, with shift_:
\* <<shifted, shifting>> afterwards.
ShiftAll(column, shifted, shifting, radius, max_dist) ==
    LET val == [i \in 1..Len(column) |->
                   NewVal(shifted[i], column, radius)]
        stops == [i \in 1..Len(column) |->
                     LessEq(dfunc_(val[i], column[i]), max_dist)]
    IN  << [i \in 1..Len(column) |->
               IF shifting[i] /\ ~stops[i] THEN val[i] ELSE shifted[i]],
           [i \in 1..Len(column) |-> shifting[i] /\ ~stops[i]] >>

\* centriods[cnt_idx]; past the end of centriods the read yields garbage.
CentroidRead(centriods, cnt_idx, garbage) ==
    IF cnt_idx < Len(centriods) THEN At(centriods, cnt_idx) ELSE garbage

\* build_cluster_'s while loop: the clusters (indices into clusters_) whose
\* centroid, as read, is within max_dist of shifted_val.
Matching(clusters, centriods, shifted_val, max_dist, garbage) ==
    {c \in 0..(Len(clusters) - 1) :
        LessEq(dfunc_(CentroidRead(centriods, c, garbage), shifted_val),
               max_dist)}

\* Whether build_cluster_'s while loop reads centriods past its end for
\* shifted_val: no cluster with a centroid matches and there are more
\* clusters than centroids.
ReadsPastCentriods(clusters, centriods, shifted_val, max_dist) ==
    /\ Len(clusters) > Len(centriods)
    /\ \A c \in 0..(Len(centriods) - 1) :
          ~LessEq(dfunc_(At(centriods, c), shifted_val), max_dist)

MSInit ==
    /\ \E p \in MSParams : ms_kband = p[1] /\ ms_max_dist = p[2]
    /\ ms_max_iter \in 1..MSMaxIter
    /\ ms_clusters = << >>
    /\ ms_clusters_idxs = << >>
    /\ ms_column = << >>
    /\ ms_shifted = << >>
    /\ ms_shifting = << >>
    /\ ms_iterations = 0
    /\ ms_centriods = << >>
    /\ ms_i = 0
    /\ ms_runs = 0
    /\ ms_pc = "idle"

\* pre()
MSPre ==
    /\ ms_pc \in {"idle", "done"}
    /\ ms_clusters' = << >>
    /\ ms_clusters_idxs' = << >>
    /\ ms_runs' = 0
    /\ ms_pc' = "idle"
    /\ UNCHANGED <<ms_kband, ms_max_dist, ms_max_iter, ms_column, ms_shifted,
                   ms_shifting, ms_iterations, ms_centriods, ms_i>>
    /\ UNCHANGED notMS

\* operator() up to its while loop.
MSBegin ==
    /\ ms_pc \in {"idle", "done"}
    /\ ms_runs < MSMaxRuns
    /\ \E column \in MSColumns :
          /\ ms_column' = column
          /\ ms_shifted' = column
          /\ ms_shifting' = [i \in 1..Len(column) |-> TRUE]
    /\ ms_iterations' = 0
    /\ ms_centriods' = << >>
    /\ ms_i' = 0
    /\ ms_runs' = ms_runs + 1
    /\ ms_pc' = "loop"
    /\ UNCHANGED <<ms_kband, ms_max_dist, ms_max_iter, ms_clusters,
                   ms_clusters_idxs>>
    /\ UNCHANGED notMS

\* One pass of operator()'s while loop.
MSShift ==
    /\ ms_pc = "loop"
    /\ ms_iterations < ms_max_iter
    /\ \E i \in 1..Len(ms_column) : ms_shifting[i]
    /\ LET r == ShiftAll(ms_column, ms_shifted, ms_shifting,
                         Radius(ms_kband), ms_max_dist)
       IN  /\ ms_shifted' = r[1]
           /\ ms_shifting' = r[2]
    /\ ms_iterations' = ms_iterations + 1
    /\ UNCHANGED <<ms_kband, ms_max_dist, ms_max_iter, ms_clusters,
                   ms_clusters_idxs, ms_column, ms_centriods, ms_i, ms_runs,
                   ms_pc>>
    /\ UNCHANGED notMS

\* The while loop ends, at the iteration limit or with nothing shifting, and
\* build_cluster_ starts with no centroid.
MSBuildBegin ==
    /\ ms_pc = "loop"
    /\ \/ ms_iterations >= ms_max_iter
       \/ \A i \in 1..Len(ms_column) : ~ms_shifting[i]
    /\ ms_centriods' = << >>
    /\ ms_i' = 0
    /\ ms_pc' = "build"
    /\ UNCHANGED <<ms_kband, ms_max_dist, ms_max_iter, ms_clusters,
                   ms_clusters_idxs, ms_column, ms_shifted, ms_shifting,
                   ms_iterations, ms_runs>>
    /\ UNCHANGED notMS

\* build_cluster_ for position i, when a cluster matches: the position joins
\* the first such cluster's value list; clusters_idxs_ is left as it is.
MSJoin ==
    /\ ms_pc = "build"
    /\ ms_i < Len(ms_shifted)
    /\ \E garbage \in MSGarbage :
          LET match == Matching(ms_clusters, ms_centriods,
                                At(ms_shifted, ms_i), ms_max_dist, garbage)
          IN  /\ match # {}
              /\ ms_clusters' =
                     SetAt(ms_clusters, MinOf(match),
                           Append(At(ms_clusters, MinOf(match)),
                                  ColumnRef(ms_i)))
    /\ ms_i' = ms_i + 1
    /\ UNCHANGED <<ms_kband, ms_max_dist, ms_max_iter, ms_clusters_idxs,
                   ms_column, ms_shifted, ms_shifting, ms_iterations,
                   ms_centriods, ms_runs, ms_pc>>
    /\ UNCHANGED notMS

\* build_cluster_ for position i, when no cluster matches: a new cluster
\* with the position in its value list and in its position list.
MSNewCluster ==
    /\ ms_pc = "build"
    /\ ms_i < Len(ms_shifted)
    /\ \E garbage \in MSGarbage :
          Matching(ms_clusters, ms_centriods, At(ms_shifted, ms_i),
                   ms_max_dist, garbage) = {}
    /\ ms_clusters' = Append(ms_clusters, <<ColumnRef(ms_i)>>)
    /\ ms_clusters_idxs' = Append(ms_clusters_idxs, <<ms_i>>)
    /\ ms_centriods' = Append(ms_centriods, At(ms_shifted, ms_i))
    /\ ms_i' = ms_i + 1
    /\ UNCHANGED <<ms_kband, ms_max_dist, ms_max_iter, ms_column, ms_shifted,
                   ms_shifting, ms_iterations, ms_runs, ms_pc>>
    /\ UNCHANGED notMS

\* build_cluster_ for position i, when the read of centriods past its end
\* is outside the process's memory: the call does not return.
MSReadOutside ==
    /\ ms_pc = "build"
    /\ ms_i < Len(ms_shifted)
    /\ ReadsPastCentriods(ms_clusters, ms_centriods, At(ms_shifted, ms_i),
                          ms_max_dist)
    /\ ms_pc' = "abort"
    /\ UNCHANGED <<ms_kband, ms_max_dist, ms_max_iter, ms_clusters,
                   ms_clusters_idxs, ms_column, ms_shifted, ms_shifting,
                   ms_iterations, ms_centriods, ms_i, ms_runs>>
    /\ UNCHANGED notMS

\* build_cluster_ and operator() return.
MSDone ==
    /\ ms_pc = "build"
    /\ ms_i >= Len(ms_shifted)
    /\ ms_shifted' = << >>
    /\ ms_shifting' = << >>
    /\ ms_iterations' = 0
    /\ ms_centriods' = << >>
    /\ ms_i' = 0
    /\ ms_pc' = "done"
    /\ UNCHANGED <<ms_kband, ms_max_dist, ms_max_iter, ms_clusters,
                   ms_clusters_idxs, ms_column, ms_runs>>
    /\ UNCHANGED notMS

MSNext ==
    \/ MSPre
    \/ MSBegin
    \/ MSShift
    \/ MSBuildBegin
    \/ MSJoin
    \/ MSNewCluster
    \/ MSReadOutside
    \/ MSDone

\* A MeanShiftVisitor alone: the other visitors are not constructed.
MSStart == MSInit /\ DBOff /\ KMOff /\ APOff /\ FFTOff /\ RTOff /\ ParOff
    /\ CVOff

SpecMeanShift == MSStart /\ [][MSNext]_vars

\* ------------------------------------------------------------------------
\* Claims about MeanShiftVisitor
\* ------------------------------------------------------------------------

\* C5: after MeanShift apply on a fresh or reset visitor, every position
\* 0 .. n-1 of the column is in exactly one cluster's position list, and the
\* position lists together hold exactly n entries.
C5_MeanShiftPositions ==
    (ms_pc = "done" /\ ms_runs = 1) =>
        /\ \A p \in 0..(Len(ms_column) - 1) :
              Count(Flatten(ms_clusters_idxs), p) = 1
        /\ Len(Flatten(ms_clusters_idxs)) = Len(ms_column)


\* ------------------------------------------------------------------------
\* FastFourierTransVisitor
\* ------------------------------------------------------------------------
\* A complex number is held exactly, as the eight integer coefficients of
\* 1, w, .., w^7 for w = exp(2 pi i / 24), with w^8 = w^4 - 1.  Every
\* exp_table entry of a transform of length 1, 2, 3, 4 or 8 is a power of w
\* (length 3 pads to m = 8), so the transforms of these lengths are computed
\* without rounding.  Column values are multiples of 12, which makes the
\* inverse transform's division by the length exact.

\* The number of coefficients of a complex number.
Degree == 8

\* The order of w: w^Turn = 1.
Turn == 24

\* The unit of the column values.
Unit == 12

\* The complex number with the coefficients f[1] .. f[Degree], each worked
\* out once.
Cplx(f) == <<f[1], f[2], f[3], f[4], f[5], f[6], f[7], f[8]>>

RECURSIVE Slice(_, _, _)
\* The sequence f[lo] .. f[hi], each element worked out once.
Slice(f, lo, hi) ==
    IF lo > hi THEN << >>
    ELSE IF lo = hi THEN <<f[lo]>>
    ELSE Slice(f, lo, (lo + hi) \div 2)
             \o Slice(f, ((lo + hi) \div 2) + 1, hi)

\* The sequence f[1] .. f[n], each element worked out once.
Vector(f, n) == Slice(f, 1, n)

CZero == Cplx([k \in 1..Degree |-> 0])

\* cplx_t(v, 0)
Complex(v) == Cplx([k \in 1..Degree |-> IF k = 1 THEN v ELSE 0])

CAdd(a, b) == Cplx([k \in 1..Degree |-> a[k] + b[k]])

CSub(a, b) == Cplx([k \in 1..Degree |-> a[k] - b[k]])

\* a times the real number r.
CScale(a, r) == Cplx([k \in 1..Degree |-> a[k] * r])

\* a divided by the real number d.
CDiv(a, d) == Cplx([k \in 1..Degree |-> a[k] \div d])

\* a times w.
Turned(a) ==
    Cplx([k \in 1..Degree |->
        IF k = 1 THEN 0 - a[Degree]
        ELSE IF k = 5 THEN a[4] + a[Degree]
        ELSE a[k - 1]])

\* The sum of b[1] * c[1][k] .. b[8] * c[8][k] over the coefficients k.
Combine(b, c) ==
    Cplx([k \in 1..Degree |->
             b[1] * c[1][k] + b[2] * c[2][k] + b[3] * c[3][k]
             + b[4] * c[4][k] + b[5] * c[5][k] + b[6] * c[6][k]
             + b[7] * c[7][k] + b[8] * c[8][k]])

\* std::multiplies<cplx_t>, operator* of two complex numbers: b[j] times
\* a w^(j-1), summed.
CMul(a, b) ==
    LET a1 == Turned(a)
        a2 == Turned(a1)
        a3 == Turned(a2)
        a4 == Turned(a3)
        a5 == Turned(a4)
        a6 == Turned(a5)
        a7 == Turned(a6)
    IN  Combine(b, <<a, a1, a2, a3, a4, a5, a6, a7>>)

RECURSIVE Power(_)
\* w^e for e >= 0.
Power(e) == IF e = 0 THEN Complex(1) ELSE Turned(Power(e - 1))

\* w^0 .. w^(Turn - 1)
Roots == Vector([e \in 1..Turn |-> Power(e - 1)], Turn)

\* std::polar(1, 2 pi e / Turn), for any integer e.
polar(e) ==
    Roots[((e + Turn * (1 + (IF e < 0 THEN 0 - e ELSE e))) % Turn) + 1]

\* The conjugates of 1, w, .., w^7: w^0, w^(Turn - 1), .., w^(Turn - 7).
Conjugates ==
    Vector([j \in 1..Degree |-> polar(0 - (j - 1))], Degree)

\* std::conj
conj(a) == Combine(a, Conjugates)

\* std::norm: the square of the modulus, a real number.
norm(a) == CMul(a, conj(a))

\* std::arg of a, kept as a term: equal numbers have equal arguments.
arg(a) == <<"arg", a>>

\* reverse_bits_
RECURSIVE reverse_bits_(_, _, _)
reverse_bits_(val, width, result) ==
    IF width = 0 THEN result
    ELSE reverse_bits_(val \div 2, width - 1, (result * 2) + (val % 2))

\* fft_radix2_'s levels: floor(log2(col_s)).
RECURSIVE Levels(_)
Levels(i) == IF i > 1 THEN 1 + Levels(i \div 2) ELSE 0

\* (col_s & (col_s - 1)) == 0
RECURSIVE IsPowerOf2(_)
IsPowerOf2(col_s) ==
    IF col_s <= 1 THEN TRUE
    ELSE col_s % 2 = 0 /\ IsPowerOf2(col_s \div 2)

\* fft_radix2_'s trigonometric table.
RadixTable(col_s, reverse) ==
    Vector([i \in 1..(col_s \div 2) |->
               polar(((IF reverse THEN 1 ELSE 0 - 1) * (i - 1) * Turn)
                     \div col_s)],
           col_s \div 2)

\* fft_radix2_'s bit-reversed addressing permutation.
BitReversed(column) ==
    Vector([p \in 1..Len(column) |->
        At(column, reverse_bits_(p - 1, Levels(Len(column)), 0))], Len(column))

\* One pass of fft_radix2_'s loop over s: the butterflies of size s.
Butterflies(column, s, exp_table) ==
    LET half_size == s \div 2
        table_step == Len(column) \div s
    IN  Vector([p \in 1..Len(column) |->
            LET k == (p - 1) % s
            IN  IF k < half_size
                THEN CAdd(At(column, p - 1),
                          CMul(At(column, p - 1 + half_size),
                               At(exp_table, k * table_step)))
                ELSE CSub(At(column, p - 1 - half_size),
                          CMul(At(column, p - 1),
                               At(exp_table,
                                  (k - half_size) * table_step)))], Len(column))

RECURSIVE CooleyTukey(_, _, _)
\* fft_radix2_'s loop over s = 2, 4, .. col_s.
CooleyTukey(column, s, exp_table) ==
    IF s > Len(column) THEN column
    ELSE CooleyTukey(Butterflies(column, s, exp_table), s * 2, exp_table)

\* fft_radix2_
fft_radix2_(column, reverse) ==
    CooleyTukey(BitReversed(column), 2, RadixTable(Len(column), reverse))


\* fft_bluestein_'s trigonometric table.
BluesteinTable(col_s, reverse) ==
    Vector([i \in 1..col_s |->
        polar(((IF reverse THEN 1 ELSE 0 - 1)
               * (((i - 1) * (i - 1)) % (col_s * 2)) * (Turn \div 2))
              \div col_s)], col_s)

\* A m that doubles while m <= col_s.
RECURSIVE ConvLenOverLength(_, _)
ConvLenOverLength(m, col_s) ==
    IF m <= col_s THEN ConvLenOverLength(m * 2, col_s) ELSE m

RECURSIVE ConvLen(_, _)
\* fft_bluestein_'s m: while (m / 2 <= col_s) m *= 2, from m.
ConvLen(m, col_s) ==
    IF m \div 2 <= col_s THEN ConvLen(m * 2, col_s) ELSE m

\* fft_bluestein_'s xvec.
XVec(column, exp_table, m) ==
    Vector([p \in 1..m |->
        IF p <= Len(column) THEN CMul(column[p], exp_table[p]) ELSE CZero], m)

\* fft_bluestein_'s yvec.
YVec(exp_table, m) ==
    Vector([p \in 1..m |->
        IF p = 1 THEN exp_table[1]
        ELSE IF p <= Len(exp_table) THEN conj(exp_table[p])
        ELSE IF m - (p - 1) >= 1 /\ m - (p - 1) < Len(exp_table)
             THEN conj(At(exp_table, m - (p - 1)))
        ELSE CZero], m)

\* fft_bluestein_'s postprocessing, were it to hand back all m positions.
PostprocessPadded(column, exp_table, conv) ==
    Vector([p \in 1..Len(conv) |->
        IF p <= Len(exp_table) THEN CMul(exp_table[p], conv[p])
        ELSE conv[p]], Len(conv))

\* fft_bluestein_'s postprocessing: column[i] = exp_table[i] * conv[i] for
\* the positions of exp_table.
Postprocess(column, exp_table, conv) ==
    Vector([p \in 1..Len(column) |->
        IF p <= Len(exp_table) THEN CMul(exp_table[p], conv[p])
        ELSE column[p]], Len(column))

RECURSIVE transform_(_, _)
RECURSIVE fft_bluestein_(_, _)
RECURSIVE convolve_(_, _)

\* convolve_
convolve_(xvec, yvec) ==
    LET fx == transform_(xvec, FALSE)
        fy == transform_(yvec, FALSE)
        product == Vector([p \in 1..Len(fx) |-> CMul(fx[p], fy[p])],
                          Len(fx))
        back == transform_(product, TRUE)
    IN  Vector([p \in 1..Len(back) |-> CDiv(back[p], Len(fx))],
               Len(back))

\* fft_bluestein_
fft_bluestein_(column, reverse) ==
    LET col_s == Len(column)
        exp_table == BluesteinTable(col_s, reverse)
        m == ConvLen(1, col_s)
        conv == convolve_(XVec(column, exp_table, m), YVec(exp_table, m))
    IN  Postprocess(column, exp_table, conv)

\* transform_
transform_(column, reverse) ==
    IF Len(column) = 0 THEN column
    ELSE IF IsPowerOf2(Len(column)) THEN fft_radix2_(column, reverse)
    ELSE fft_bluestein_(column, reverse)

\* itransform_ before its division by col_s.
Unscaled(column) ==
    LET conjugated == Vector([p \in 1..Len(column) |-> conj(column[p])],
                             Len(column))
        forward == IF IsPowerOf2(Len(column))
                   THEN fft_radix2_(conjugated, FALSE)
                   ELSE fft_bluestein_(conjugated, FALSE)
    IN  Vector([p \in 1..Len(column) |-> conj(forward[p])], Len(column))

\* itransform_, were it to leave out the division by col_s.
itransform_NoDivision(column) == Unscaled(column)

\* itransform_
itransform_(column) ==
    LET unscaled == Unscaled(column)
    IN  Vector([p \in 1..Len(column) |-> CDiv(unscaled[p], Len(column))],
               Len(column))

\* operator() on a column already converted to complex numbers: the
\* result it swaps into result_.
Spectrum(column, inverse) ==
    IF inverse THEN itransform_(column) ELSE transform_(column, FALSE)

\* operator()'s conversion of a real column: cplx_t(v, 0) per value.
ToComplex(column) ==
    Vector([p \in 1..Len(column) |-> Complex(column[p])], Len(column))

\* get_magnitude's sequence for a result, each entry squared.
Magnitudes(result) ==
    Vector([p \in 1..Len(result) |-> norm(result[p])], Len(result))

\* get_angle's sequence for a result.
Angles(result) ==
    Vector([p \in 1..Len(result) |-> arg(result[p])], Len(result))

\* Bound: the longest column a FastFourierTransVisitor is explored on.
FFTMaxLen == 3

\* Bound: how many apply calls one visitor sees without a reset.
FFTMaxRuns == 2

\* The columns of the visitor under reset, apply and the two accessors:
\* every length up to the bound with all values 1, and two columns with a 0.
FFTValues == {Unit}

FFTExtraColumns == {<<Unit, 0>>, <<0, Unit, Unit>>}

FFTColumns == SeqsUpTo(FFTValues, FFTMaxLen) \cup FFTExtraColumns

\* The values a column of the forward-then-inverse pair is drawn from:
\* 0, 1, -1 and 2.
RTValues == {0, Unit, 0 - Unit, 2 * Unit}

RTColumns == SeqsUpTo(RTValues, FFTMaxLen)

\* The constructor, with inverse either way.
FFTInit ==
    /\ fft_inverse \in BOOLEAN
    /\ fft_result = << >>
    /\ fft_magnitude = << >>
    /\ fft_angle = << >>
    /\ fft_column = << >>
    /\ fft_runs = 0
    /\ fft_pc = "idle"

\* pre()
FFTPre ==
    /\ fft_pc \in {"idle", "done"}
    /\ fft_result' = << >>
    /\ fft_magnitude' = << >>
    /\ fft_angle' = << >>
    /\ fft_column' = << >>
    /\ fft_runs' = 0
    /\ fft_pc' = "idle"
    /\ UNCHANGED fft_inverse
    /\ UNCHANGED notFFT

\* operator() on a real column.
FFTApply ==
    /\ fft_pc \in {"idle", "done"}
    /\ fft_runs < FFTMaxRuns
    /\ \E column \in FFTColumns :
          /\ fft_column' = column
          /\ fft_result' = Spectrum(ToComplex(column), fft_inverse)
    /\ fft_runs' = fft_runs + 1
    /\ fft_pc' = "done"
    /\ UNCHANGED <<fft_inverse, fft_magnitude, fft_angle>>
    /\ UNCHANGED notFFT

\* get_magnitude()
FFTGetMagnitude ==
    /\ fft_pc \in {"idle", "done"}
    /\ fft_magnitude' = IF fft_magnitude = << >>
                        THEN Magnitudes(fft_result)
                        ELSE fft_magnitude
    /\ UNCHANGED <<fft_inverse, fft_result, fft_angle, fft_column, fft_runs,
                   fft_pc>>
    /\ UNCHANGED notFFT

\* get_angle()
FFTGetAngle ==
    /\ fft_pc \in {"idle", "done"}
    /\ fft_angle' = IF fft_angle = << >>
                    THEN Angles(fft_result)
                    ELSE fft_angle
    /\ UNCHANGED <<fft_inverse, fft_result, fft_magnitude, fft_column,
                   fft_runs, fft_pc>>
    /\ UNCHANGED notFFT

FFTNext ==
    \/ FFTPre
    \/ FFTApply
    \/ FFTGetMagnitude
    \/ FFTGetAngle

\* A FastFourierTransVisitor alone: the other visitors are not constructed.
FFTStart == FFTInit /\ DBOff /\ KMOff /\ APOff /\ MSOff /\ RTOff /\ ParOff
    /\ CVOff

SpecFFT == FFTStart /\ [][FFTNext]_vars

\* A column, a forward visitor and an inverse visitor, both just
\* constructed.
RTInit ==
    /\ rt_x \in RTColumns
    /\ rt_spectrum = << >>
    /\ rt_back = << >>
    /\ rt_pc = "start"

\* operator() of the forward visitor on the column.
RTForward ==
    /\ rt_pc = "start"
    /\ rt_spectrum' = Spectrum(ToComplex(rt_x), FALSE)
    /\ rt_pc' = "forward"
    /\ UNCHANGED <<rt_x, rt_back>>
    /\ UNCHANGED notRT

\* operator() of the inverse visitor on the forward visitor's result.
RTInverse ==
    /\ rt_pc = "forward"
    /\ rt_back' = Spectrum(rt_spectrum, TRUE)
    /\ rt_pc' = "back"
    /\ UNCHANGED <<rt_x, rt_spectrum>>
    /\ UNCHANGED notRT

RTNext ==
    \/ RTForward
    \/ RTInverse

RTStart == RTInit /\ DBOff /\ KMOff /\ APOff /\ MSOff /\ FFTOff /\ ParOff
    /\ CVOff

SpecFFTRoundTrip == RTStart /\ [][RTNext]_vars

\* ------------------------------------------------------------------------
\* Claims about FastFourierTransVisitor
\* ------------------------------------------------------------------------

\* What get_magnitude() returns when called now, each entry squared.
MagnitudeNow ==
    IF fft_magnitude = << >> THEN Magnitudes(fft_result) ELSE fft_magnitude

\* What get_angle() returns when called now.
AngleNow == IF fft_angle = << >> THEN Angles(fft_result) ELSE fft_angle

\* C8: after any sequence of reset, apply, get_magnitude and get_angle
\* calls, get_magnitude returns the moduli of the current result, element
\* by element and of the same length, and get_angle its arguments.
C8_AccessorsFollowResult ==
    /\ MagnitudeNow = Magnitudes(fft_result)
    /\ AngleNow = Angles(fft_result)

\* The length m fft_bluestein_ pads its sequences to for a column, and the
\* length of the convolution it computes from them.
PaddedTo(column) ==
    LET exp_table == BluesteinTable(Len(column), FALSE)
        m == ConvLen(1, Len(column))
    IN  <<m, Len(convolve_(XVec(column, exp_table, m), YVec(exp_table, m)))>>

\* C9: for every column length n, power of two or not, forward or inverse,
\* the result of apply has exactly n elements; on the Bluestein path the
\* internal sequences have the longer length m.
C9_ResultLength ==
    fft_pc = "done" =>
        /\ Len(fft_result) = Len(fft_column)
        /\ ~IsPowerOf2(Len(fft_column)) =>
              LET padded == PaddedTo(ToComplex(fft_column))
              IN  /\ padded[1] >= 2 * Len(fft_column) + 1
                  /\ padded[2] = padded[1]

\* An inverse apply on a column of three values, not all zero, is done.
C9_Witness ==
    /\ fft_pc = "done"
    /\ fft_inverse
    /\ Len(fft_column) = 3
    /\ \E p \in 1..3 : fft_column[p] # 0

\* C10: the inverse visitor applied to the forward visitor's result on x
\* gives x back, element by element.
C10_RoundTrip == rt_pc = "back" => rt_back = ToComplex(rt_x)

\* The round trip of a column of three values, not all equal, is done.
C10_Witness ==
    /\ rt_pc = "back"
    /\ Len(rt_x) = 3
    /\ rt_x[1] # rt_x[2]
    /\ rt_x[3] # 0

\* ------------------------------------------------------------------------
\* Further claims about DBSCANVisitor
\* ------------------------------------------------------------------------

\* The neighbourhood of position p in the column of the apply, as a set.
DBNeighbourhood(p) == Range(calculate_cluster_(db_column, p, db_max_dist))

\* A core point: a position whose neighbourhood has at least min_mems
\* members.
DBCore(p) == Cardinality(DBNeighbourhood(p)) >= db_min_mems

\* The positions of the column of the apply.
DBPositions == 0..(Len(db_column) - 1)

\* C14: after apply, a position is in the noise list only if its own
\* neighbourhood has fewer than min_mems members and it lies within the
\* radius of no core point (so a position first labeled NOISE that is within
\* the radius of a core point ends in a cluster).
C14_NoiseIsFarFromCores ==
    (db_pc = "done" /\ db_runs = 1) =>
        \A p \in Range(db_noisey_idxs) :
            /\ ~DBCore(p)
            /\ \A c \in DBPositions : DBCore(c) => p \notin DBNeighbourhood(c)

\* C15: after apply, every position in a cluster is a core point or lies
\* within the radius of a core point of the same cluster; a position that is
\* not core and is beyond the radius of every other position is in no
\* cluster.
C15_ClusterMembersReachable ==
    (db_pc = "done" /\ db_runs = 1) =>
        \A k \in 1..Len(db_clusters_idxs) :
            \A p \in Range(db_clusters_idxs[k]) :
                /\ \/ DBCore(p)
                   \/ \E c \in Range(db_clusters_idxs[k]) :
                         DBCore(c) /\ p \in DBNeighbourhood(c)
                /\ ~(~DBCore(p) /\ DBNeighbourhood(p) \subseteq {p})

\* C16: in a pass of the growth loop for a work-list member whose
\* neighbourhood has at least min_mems members, every member of that
\* neighbourhood labeled UNCLASSIFIED or NOISE takes the current cluster id,
\* the UNCLASSIFIED ones are on the work list afterwards, and no label of a
\* position outside the neighbourhood changes.
C16_GrowRelabelsNeighbours ==
    [][(/\ db_pc = "grow"
        /\ db_si < db_n
        /\ db_si < Len(db_seeds)
        /\ db_si' = db_si + 1
        /\ DBCore(At(db_seeds, db_si))) =>
           \A p \in DBPositions :
               IF p \in DBNeighbourhood(At(db_seeds, db_si))
               THEN At(db_cluster_ids, p) < 0 =>
                       /\ At(db_cluster_ids', p) = db_cluster_id
                       /\ At(db_cluster_ids, p) = UNCLASSIFIED =>
                             p \in Range(db_seeds')
               ELSE At(db_cluster_ids', p) = At(db_cluster_ids, p)]_vars

\* C17: during an expansion every read of the work list, seeds[i] at the
\* top of the growth loop's body, has i below the work list's length.
C17_WorkListReadsInside ==
    (db_pc = "grow" /\ db_si < db_n) => db_si < Len(db_seeds)

\* C18: when no position of the column is a core point, apply completes,
\* with no cluster and every position in the noise list, and does not
\* abort.
C18_NoCoreCompletes ==
    (/\ db_pc \in {"done", "abort"}
     /\ db_runs = 1
     /\ \A p \in DBPositions : ~DBCore(p)) =>
        /\ db_pc = "done"
        /\ db_clusters_idxs = << >>
        /\ db_noisey_idxs = Positions(Len(db_column))

\* A step of the expansion that is under way.
DBExpansionStep == DBGrow \/ DBGrowPastEnd \/ DBGrowAbort \/ DBGrowEnd

\* The operations of a visitor up to its first apply and through it.
DBFirstApply == DBNext /\ db_runs' <= 1

\* DBSCAN with an expansion that keeps running: expand_cluster_ is
\* straight-line code on the calling thread, so a step of it that can be
\* taken is taken.
SpecDBSCANLive ==
    DBStart /\ [][DBFirstApply]_vars /\ WF_vars(DBExpansionStep)

\* The positions whose label a step turns from UNCLASSIFIED into something
\* else.
DBClassifiedByStep ==
    {p \in DBPositions :
        /\ At(db_cluster_ids, p) = UNCLASSIFIED
        /\ At(db_cluster_ids', p) # UNCLASSIFIED}

\* C19: every position appended to the work list during an expansion has
\* its neighbourhood examined before the expansion returns: the loop bound
\* follows the work list's length once a pass has appended, no pass that
\* reads past the work list appends, and the expansion returns only with
\* the loop index at or past the work list's length.  Each pass appends as
\* many entries as it turns UNCLASSIFIED labels into the cluster id, so the
\* appends of one apply are bounded by the number of positions, and every
\* expansion ends.
C19_AppendedAreExamined ==
    /\ [][(db_pc = "grow" /\ db_pc' = "grow") =>
             /\ Len(db_seeds') - Len(db_seeds)
                    = Cardinality(DBClassifiedByStep)
             /\ Len(db_seeds') > Len(db_seeds) => db_n' = Len(db_seeds')
             /\ db_si >= Len(db_seeds) => db_seeds' = db_seeds]_vars
    /\ [][(db_pc = "grow" /\ db_pc' = "scan") =>
             db_si >= Len(db_seeds)]_vars
    /\ (db_pc = "grow") ~> (db_pc # "grow")

\* An expansion in which a pass appended to the work list has examined
\* every entry and is about to return.
C19_Witness ==
    /\ db_pc = "grow"
    /\ db_si >= db_n
    /\ db_n = Len(db_seeds)
    /\ db_n >= 2

\* The positions of the starting point's neighbourhood that hold the
\* starting point's value.
DBSameValue ==
    {p \in DBNeighbourhood(db_i) : At(db_column, p) = At(db_column, db_i)}

\* The last neighbourhood entry whose value equals the starting value.
DBLastSameValue == CHOOSE p \in DBSameValue : \A q \in DBSameValue : q <= p

\* C20: the entry removed from the work list before growing is the last
\* neighbourhood entry whose value equals the starting value; it is the
\* starting position itself when no other position of the neighbourhood
\* holds that value, and with a duplicate value in the neighbourhood it is
\* a different position, which no pass of that expansion's growth loop
\* processes as a work-list member.
C20_RemovedByValue ==
    [][/\ (db_pc = "scan" /\ db_pc' = "grow") =>
              /\ Range(db_seeds') = DBNeighbourhood(db_i) \ {DBLastSameValue}
              /\ DBSameValue = {db_i} => DBLastSameValue = db_i
              /\ DBSameValue # {db_i} => DBLastSameValue # db_i
       /\ (/\ db_pc = "grow"
           /\ db_pc' = "grow"
           /\ db_si < Len(db_seeds)
           /\ DBSameValue # {db_i}) =>
              At(db_seeds, db_si) # DBLastSameValue]_vars


\* ------------------------------------------------------------------------
\* KMeansVisitor on the documented example column
\* ------------------------------------------------------------------------

\* The column {0, 0, 1, 10, 11, 10}, in sixtieths.
KMExampleColumn == <<0, 0, 60, 600, 660, 600>>

\* Bound: the largest iteration limit the example visitor is constructed
\* with.
KMExMaxIter == 3

\* A visitor with K = 2, the default distance and no seed.
KMExInit ==
    /\ km_iter_num \in 1..KMExMaxIter
    /\ km_cc \in BOOLEAN
    /\ km_result = [k \in 1..KMeansK |-> 0]
    /\ km_clusters = [k \in 1..KMeansK |-> << >>]
    /\ km_clusters_idxs = [k \in 1..KMeansK |-> << >>]
    /\ km_column = << >>
    /\ km_seeded = FALSE
    /\ km_draws = [n \in KMSizes |-> << >>]
    /\ km_samples = << >>
    /\ km_iter = 0
    /\ km_runs = 0
    /\ km_from_reset = FALSE
    /\ km_pc = "idle"

\* operator() and calc_k_means_ up to its loop, on the example column: any
\* two positions may be sampled, the same one twice included.
KMExBegin ==
    /\ km_pc \in {"idle", "done"}
    /\ km_runs < KMMaxRuns
    /\ \E samples \in [1..KMeansK -> 0..(Len(KMExampleColumn) - 1)] :
          /\ km_column' = KMExampleColumn
          /\ km_samples' = samples
          /\ km_result' = InitMeans(km_result, KMExampleColumn, samples)
    /\ km_iter' = 0
    /\ km_runs' = km_runs + 1
    /\ km_from_reset' = (km_pc = "idle" /\ km_from_reset)
    /\ km_pc' = "loop"
    /\ UNCHANGED <<km_iter_num, km_cc, km_seeded, km_draws, km_clusters,
                   km_clusters_idxs>>
    /\ UNCHANGED notKM

KMExNext ==
    \/ KMPre
    \/ KMExBegin
    \/ KMRound
    \/ KMLimit
    \/ KMCalcClusters
    \/ KMNoClusters

KMExStart == KMExInit /\ DBOff /\ APOff /\ MSOff /\ FFTOff /\ RTOff /\ ParOff
    /\ CVOff

SpecKMeansExample == KMExStart /\ [][KMExNext]_vars

\* The means no further round would move.
KMConverged == Round(km_column, km_result)[2]

\* The mean of the three low points and the mean of the three high points:
\* 1/3 and 31/3.
KMLowMean == (0 + 0 + 60) \div 3
KMHighMean == (600 + 660 + 600) \div 3

\* C13: on the column {0, 0, 1, 10, 11, 10}, for every pair of sampled
\* positions, two rounds are enough to converge, and the converged means
\* are 1/3 and 31/3, one per cluster; with membership on, the cluster of
\* 1/3 holds positions 0, 1, 2 and the cluster of 31/3 positions 3, 4, 5.
C13_KMeansExample ==
    /\ (km_pc = "done" /\ km_iter_num >= 2) => KMConverged
    /\ (km_pc = "done" /\ KMConverged) =>
          \E lo \in 1..KMeansK :
              LET hi == (KMeansK + 1) - lo
              IN  /\ km_result[lo] = KMLowMean
                  /\ km_result[hi] = KMHighMean
                  /\ km_cc =>
                        /\ km_clusters_idxs[lo] = <<0, 1, 2>>
                        /\ km_clusters_idxs[hi] = <<3, 4, 5>>

\* Both sampled positions hold the value 0, every point starts in the first
\* cluster, and the run still ends with the low points in the second.
C13_Witness ==
    /\ km_pc = "done"
    /\ km_cc
    /\ km_samples = <<0, 1>>
    /\ km_result = <<KMHighMean, KMLowMean>>
    /\ km_clusters_idxs = <<<<3, 4, 5>>, <<0, 1, 2>>>>


\* ------------------------------------------------------------------------
\* FastFourierTransVisitor with the thread pool
\* ------------------------------------------------------------------------
\* operator() step by step: at every gate the calling thread either runs the
\* loop itself or hands it to ThreadPool::parallel_loop and then calls get()
\* on each future it was given.  A stage is one gated loop, named after the
\* function it is in: "copy" (operator()), "conj1", "conj2", "div"
\* (itransform_), "r_table" (fft_radix2_ on the column), "b_table",
\* "b_xvec", "b_yvec", "b_post" (fft_bluestein_), "c_mul", "c_div"
\* (convolve_), and "cx_table", "cy_table", "cr_table" (fft_radix2_ on
\* convolve_'s xvec, yvec and xvec again, the last with reverse set).

\* The concurrency levels a visitor is constructed under: at the floor of
\* the gate and above it.
ParLevels == {2, 3}

\* ThreadPool::MUL_THR_THHOLD is defined outside this file; the values it is
\* explored with: one that sends every transform of two or more elements to
\* the pool, and one that does so for Bluestein's padded sequences of a
\* column it transforms on the calling thread.
ParThresholds == {2, 4}

\* Bound: into how many chunks parallel_loop may split a range.
ParMaxChunks == 2

\* The columns the step-by-step operator() is applied to.
ParColumns ==
    FFTColumns \cup {<<0, Unit, 2 * Unit>>, <<Unit, 0, 0, 2 * Unit>>}

\* The buffers operator() and the functions it calls work on.
Buffers ==
    [work |-> par_work, exp_table |-> par_exp_table, xvec |-> par_xvec,
     yvec |-> par_yvec, table |-> par_table, result |-> par_result]

\* A sequence with every element worked out.
Forced(s) == Vector(s, Len(s))

\* Buffers with every element worked out.
ForcedAll(b) ==
    [work |-> Forced(b.work), exp_table |-> Forced(b.exp_table),
     xvec |-> Forced(b.xvec), yvec |-> Forced(b.yvec),
     table |-> Forced(b.table), result |-> Forced(b.result)]

\* result_type(n), result_type(n, cplx_t(0, 0))
Zeros(n) == Vector([p \in 1..n |-> CZero], n)

\* std::polar(1, two_pi * i / col_s) of fft_radix2_.
RadixEntry(i, col_s, reverse) ==
    polar(((IF reverse THEN 1 ELSE 0 - 1) * i * Turn) \div col_s)

\* std::polar(1, pi * ((i * i) % col_s_2) / col_s) of fft_bluestein_.
BluesteinEntry(i, col_s, reverse) ==
    polar(((IF reverse THEN 1 ELSE 0 - 1)
           * ((i * i) % (col_s * 2)) * (Turn \div 2)) \div col_s)

\* An index taken from the end of the column instead of the end of yvec.
MirrorInColumn(i, b) == Len(b.work) - i

\* m - i: the second element of yvec the Bluestein loop writes for index i.
Mirror(i, b) == Len(b.yvec) - i

\* The buffer a stage's loop writes.
Target(stage) ==
    CASE stage \in {"copy", "conj1", "conj2", "div", "b_post"} -> "work"
      [] stage \in {"r_table", "b_table"} -> "exp_table"
      [] stage \in {"b_xvec", "c_mul", "c_div"} -> "xvec"
      [] stage = "b_yvec" -> "yvec"
      [] stage \in {"cx_table", "cy_table", "cr_table"} -> "table"

\* The elements <<buffer, index>> the body of a stage's loop writes for
\* index i.
Written(stage, i, b) ==
    IF stage = "b_yvec"
    THEN {<<"yvec", i>>, <<"yvec", Mirror(i, b)>>}
    ELSE {<<Target(stage), i>>}

\* The body of a stage's loop for one index i: the buffers afterwards.  The
\* loop handed to the pool and the loop of the else branch have the same
\* body in every stage.
Element(stage, i, b) ==
    CASE stage = "copy" ->
           [b EXCEPT !.work = SetAt(b.work, i, Complex(At(par_column, i)))]
      [] stage \in {"conj1", "conj2"} ->
           [b EXCEPT !.work = SetAt(b.work, i, conj(At(b.work, i)))]
      [] stage = "div" ->
           [b EXCEPT !.work =
                SetAt(b.work, i, CDiv(At(b.work, i), Len(b.work)))]
      [] stage = "r_table" ->
           [b EXCEPT !.exp_table =
                SetAt(b.exp_table, i, RadixEntry(i, Len(b.work), FALSE))]
      [] stage = "b_table" ->
           [b EXCEPT !.exp_table =
                SetAt(b.exp_table, i, BluesteinEntry(i, Len(b.work), FALSE))]
      [] stage = "b_xvec" ->
           [b EXCEPT !.xvec =
                SetAt(b.xvec, i, CMul(At(b.work, i), At(b.exp_table, i)))]
      [] stage = "b_yvec" ->
           [b EXCEPT !.yvec =
                SetAt(SetAt(b.yvec, Mirror(i, b), conj(At(b.exp_table, i))),
                      i, conj(At(b.exp_table, i)))]
      [] stage \in {"cx_table", "cy_table"} ->
           [b EXCEPT !.table =
                SetAt(b.table, i, RadixEntry(i, Len(b.xvec), FALSE))]
      [] stage = "cr_table" ->
           [b EXCEPT !.table =
                SetAt(b.table, i, RadixEntry(i, Len(b.xvec), TRUE))]
      [] stage = "c_mul" ->
           [b EXCEPT !.xvec =
                SetAt(b.xvec, i, CMul(At(b.xvec, i), At(b.yvec, i)))]
      [] stage = "c_div" ->
           [b EXCEPT !.xvec =
                SetAt(b.xvec, i, CDiv(At(b.xvec, i), Len(b.xvec)))]
      [] stage = "b_post" ->
           [b EXCEPT !.work =
                SetAt(b.work, i, CMul(At(b.exp_table, i), At(b.xvec, i)))]

\* The range <<begin, end>> a stage's loop runs over.
StageRange(stage, b) ==
    CASE stage \in {"copy", "conj1", "conj2", "div", "b_table", "b_xvec"} ->
           <<0, Len(b.work)>>
      [] stage = "r_table" -> <<0, Len(b.work) \div 2>>
      [] stage = "b_yvec" -> <<1, Len(b.work)>>
      [] stage = "b_post" -> <<0, Len(b.exp_table)>>
      [] stage \in {"cx_table", "cy_table", "cr_table"} ->
           <<0, Len(b.xvec) \div 2>>
      [] stage \in {"c_mul", "c_div"} -> <<0, Len(b.xvec)>>

\* The col_s a stage's gate compares with the threshold: the length of the
\* sequence its function was given.
GateSize(stage, b) ==
    IF stage \in {"cx_table", "cy_table", "cr_table", "c_mul", "c_div"}
    THEN Len(b.xvec)
    ELSE Len(b.work)

\* thread_level > 2 && col_s >= ThreadPool::MUL_THR_THHOLD
Gate(stage, b) ==
    par_thread_level > 2 /\ GateSize(stage, b) >= par_threshold

\* The else branch of a stage: the loop from i on, on the calling thread.
RECURSIVE RunAll(_, _, _, _)
RunAll(stage, i, end, b) ==
    IF i >= end THEN b
    ELSE RunAll(stage, i + 1, end, ForcedAll(Element(stage, i, b)))

\* fft_radix2_ after its table: the permutation and the butterflies.
Radix2Tail(column, exp_table) ==
    CooleyTukey(BitReversed(column), 2, exp_table)

\* result_.swap(result), and result goes out of scope.
Publish(b) == [b EXCEPT !.result = b.work, !.work = << >>]

\* Where fft_radix2_ or fft_bluestein_ on the column returns to: the rest
\* of itransform_, or the end of operator().
AfterTransform(b) ==
    IF par_inverse THEN <<b, "conj2">> ELSE <<Publish(b), "done">>

\* The choice of algorithm by length, and the table it allocates.
EnterFFT(b) ==
    IF IsPowerOf2(Len(b.work))
    THEN <<[b EXCEPT !.exp_table = Zeros(Len(b.work) \div 2)], "r_table">>
    ELSE <<[b EXCEPT !.exp_table = Zeros(Len(b.work))], "b_table">>

\* What the calling thread does between the end of a stage and the gate of
\* the next: <<buffers, next stage>>.
Continue(stage, b) ==
    CASE stage = "copy" ->
           IF par_inverse THEN <<b, "conj1">>
           ELSE IF Len(b.work) = 0 THEN <<Publish(b), "done">>
           ELSE EnterFFT(b)
      [] stage = "conj1" -> EnterFFT(b)
      [] stage = "r_table" ->
           AfterTransform([b EXCEPT
               !.work = Radix2Tail(b.work, b.exp_table),
               !.exp_table = << >>])
      [] stage = "b_table" ->
           <<[b EXCEPT !.xvec = Zeros(ConvLen(1, Len(b.work)))], "b_xvec">>
      [] stage = "b_xvec" ->
           <<[b EXCEPT !.yvec =
                 SetAt(Zeros(Len(b.xvec)), 0, At(b.exp_table, 0))],
             "b_yvec">>
      [] stage = "b_yvec" ->
           <<[b EXCEPT !.table = Zeros(Len(b.xvec) \div 2)], "cx_table">>
      [] stage = "cx_table" ->
           <<[b EXCEPT !.xvec = Radix2Tail(b.xvec, b.table),
                       !.table = Zeros(Len(b.yvec) \div 2)], "cy_table">>
      [] stage = "cy_table" ->
           <<[b EXCEPT !.yvec = Radix2Tail(b.yvec, b.table),
                       !.table = << >>], "c_mul">>
      [] stage = "c_mul" ->
           <<[b EXCEPT !.table = Zeros(Len(b.xvec) \div 2)], "cr_table">>
      [] stage = "cr_table" ->
           <<[b EXCEPT !.xvec = Radix2Tail(b.xvec, b.table),
                       !.table = << >>], "c_div">>
      [] stage = "c_div" -> <<b, "b_post">>
      [] stage = "b_post" ->
           AfterTransform([b EXCEPT
               !.exp_table = << >>, !.xvec = << >>, !.yvec = << >>])
      [] stage = "conj2" -> <<b, "div">>
      [] stage = "div" -> <<Publish(b), "done">>

\* The stages.
Stages ==
    {"copy", "conj1", "r_table", "b_table", "b_xvec", "b_yvec", "cx_table",
     "cy_table", "c_mul", "cr_table", "c_div", "b_post", "conj2", "div"}

\* The elements of a finite set of numbers, in increasing order.
RECURSIVE Sorted(_)
Sorted(S) ==
    IF S = {} THEN << >>
    ELSE LET least == CHOOSE x \in S : \A y \in S : x <= y
         IN  <<least>> \o Sorted(S \ {least})

\* The chunks cut at the given bounds: chunk k runs from bounds[k] to
\* bounds[k + 1], and starts at its begin.
ChunksAt(stage, bounds) ==
    [k \in 1..(Len(bounds) - 1) |->
        [stage |-> stage, begin |-> bounds[k], end |-> bounds[k + 1],
         next |-> bounds[k]]]

\* ThreadPool::parallel_loop(begin, end, ..): the range is split into
\* disjoint contiguous chunks that cover it, one unit of work per chunk;
\* where it is cut is the pool's choice.
parallel_loop(stage, begin, end) ==
    IF begin >= end THEN {<< >>}
    ELSE {Forced(ChunksAt(stage, <<begin>> \o Sorted(cuts) \o <<end>>)) :
              cuts \in {c \in SUBSET ((begin + 1)..(end - 1)) :
                            Cardinality(c) < ParMaxChunks}}

\* A loop over the futures that ends after the first of them.
JoinedFirst == par_got >= 1

\* for (auto &fut : futures): whether the loop has gone over every future.
Joined == par_got >= Len(par_tasks)

\* Whether future.get() returns at once, without waiting for its chunk.
CompletedAtOnce(task) == TRUE

\* Whether future.get() returns: the chunk's unit of work has run to its
\* end.
Completed(task) == task.next >= task.end

\* The buffers b, stored.
Store(b) ==
    /\ par_work' = Forced(b.work)
    /\ par_exp_table' = Forced(b.exp_table)
    /\ par_xvec' = Forced(b.xvec)
    /\ par_yvec' = Forced(b.yvec)
    /\ par_table' = Forced(b.table)
    /\ par_result' = Forced(b.result)

\* The constructor: inverse either way, the concurrency level read from
\* ThreadGranularity.
ParInit ==
    /\ par_thread_level \in ParLevels
    /\ par_threshold \in ParThresholds
    /\ par_inverse \in BOOLEAN
    /\ par_column = << >>
    /\ par_work = << >>
    /\ par_exp_table = << >>
    /\ par_xvec = << >>
    /\ par_yvec = << >>
    /\ par_table = << >>
    /\ par_result = << >>
    /\ par_tasks = << >>
    /\ par_got = 0
    /\ par_reordered = FALSE
    /\ par_phase = "gate"
    /\ par_pc = "idle"

\* operator() up to its gate: result is allocated.
ParBegin ==
    /\ par_pc = "idle"
    /\ \E column \in ParColumns :
          /\ par_column' = column
          /\ par_work' = Zeros(Len(column))
    /\ par_pc' = "copy"
    /\ UNCHANGED <<par_thread_level, par_threshold, par_inverse,
                   par_exp_table, par_xvec, par_yvec, par_table, par_result,
                   par_tasks, par_got, par_reordered, par_phase>>
    /\ UNCHANGED notPar

\* A gate that is closed: the calling thread runs the stage's loop, and
\* goes on to the next gate.
ParSequential ==
    /\ par_pc \in Stages
    /\ par_phase = "gate"
    /\ ~Gate(par_pc, Buffers)
    /\ LET range == StageRange(par_pc, Buffers)
           c == Continue(par_pc,
                         RunAll(par_pc, range[1], range[2], Buffers))
       IN  /\ Store(c[1])
           /\ par_pc' = c[2]
    /\ UNCHANGED <<par_thread_level, par_threshold, par_inverse, par_column,
                   par_tasks, par_got, par_reordered, par_phase>>
    /\ UNCHANGED notPar

\* A gate that is open: parallel_loop hands the chunks to the pool and
\* returns their futures.
ParDispatch ==
    /\ par_pc \in Stages
    /\ par_phase = "gate"
    /\ Gate(par_pc, Buffers)
    /\ LET range == StageRange(par_pc, Buffers)
       IN  \E chunks \in parallel_loop(par_pc, range[1], range[2]) :
               par_tasks' = par_tasks \o chunks
    /\ par_got' = Len(par_tasks)
    /\ par_phase' = "join"
    /\ UNCHANGED <<par_thread_level, par_threshold, par_inverse, par_column,
                   par_work, par_exp_table, par_xvec, par_yvec, par_table,
                   par_result, par_reordered, par_pc>>
    /\ UNCHANGED notPar

\* A worker thread runs the body of some chunk's loop for the chunk's next
\* index.
ParChunk ==
    /\ \E k \in 1..Len(par_tasks) :
          /\ par_tasks[k].next < par_tasks[k].end
          /\ Store(Element(par_tasks[k].stage, par_tasks[k].next, Buffers))
          /\ par_tasks' = [par_tasks EXCEPT ![k].next = @ + 1]
          /\ par_reordered' =
                 (par_reordered
                  \/ \E j \in 1..(k - 1) :
                         par_tasks[j].next < par_tasks[j].end)
    /\ UNCHANGED <<par_thread_level, par_threshold, par_inverse, par_column,
                   par_got, par_phase, par_pc>>
    /\ UNCHANGED notPar

\* for (auto &fut : futures) fut.get(): one get() returns.
ParGet ==
    /\ par_phase = "join"
    /\ ~Joined
    /\ Completed(par_tasks[par_got + 1])
    /\ par_got' = par_got + 1
    /\ UNCHANGED <<par_thread_level, par_threshold, par_inverse, par_column,
                   par_work, par_exp_table, par_xvec, par_yvec, par_table,
                   par_result, par_tasks, par_reordered, par_phase, par_pc>>
    /\ UNCHANGED notPar

\* The loop over the futures is over: the futures go out of scope, which
\* waits for nothing, and the calling thread goes on to the next gate.  A
\* chunk that has not run to its end stays with the pool.
ParJoined ==
    /\ par_phase = "join"
    /\ Joined
    /\ par_tasks' = SelectSeq(par_tasks, LAMBDA t : t.next < t.end)
    /\ par_got' = 0
    /\ par_phase' = "gate"
    /\ LET c == Continue(par_pc, Buffers)
       IN  /\ Store(c[1])
           /\ par_pc' = c[2]
    /\ UNCHANGED <<par_thread_level, par_threshold, par_inverse, par_column,
                   par_reordered>>
    /\ UNCHANGED notPar

ParNext ==
    \/ ParBegin
    \/ ParSequential
    \/ ParDispatch
    \/ ParChunk
    \/ ParGet
    \/ ParJoined

\* A FastFourierTransVisitor and the pool alone.
ParStart ==
    ParInit /\ DBOff /\ KMOff /\ APOff /\ MSOff /\ FFTOff /\ RTOff /\ CVOff

SpecFFTParallel == ParStart /\ [][ParNext]_vars

\* ------------------------------------------------------------------------
\* Claims about FastFourierTransVisitor with the thread pool
\* ------------------------------------------------------------------------

\* The chunks handed to the pool that have not run to their end.
ParUnfinished == {k \in 1..Len(par_tasks) : par_tasks[k].next < par_tasks[k].end}

\* C11: while the calling thread is anywhere but in a loop over futures, no
\* chunk it dispatched is unfinished: every get() that has returned was on a
\* finished chunk, the next stage's gate is reached only with every chunk
\* finished, and so is the end of apply.
C11_JoinsEveryChunk ==
    /\ [](/\ par_phase = "join" =>
                \A k \in ParUnfinished : k > par_got
          /\ par_phase = "gate" => ParUnfinished = {}
          /\ par_pc = "done" => ParUnfinished = {} /\ par_tasks = << >>)
    /\ [][(par_pc' # par_pc \/ par_phase' = "gate") =>
              ParUnfinished = {}]_vars

\* The inverse transform's last stage was split into two chunks, both have
\* run and both futures have been waited on.
C11_Witness ==
    /\ par_pc = "div"
    /\ par_phase = "join"
    /\ Len(par_tasks) = ParMaxChunks
    /\ par_got = Len(par_tasks)
    /\ par_reordered

\* C12: the result apply publishes through the gates, whatever their
\* chunks and whatever the order the chunks ran in, is the result of the
\* transform run on the calling thread alone, element by element.
C12_ParallelEqualsSequential ==
    par_pc = "done" =>
        par_result = Spectrum(ToComplex(par_column), par_inverse)

\* An inverse Bluestein transform of three different values was published
\* after chunks of a later range ran ahead of chunks of an earlier one.
C12_Witness ==
    /\ par_pc = "done"
    /\ par_inverse
    /\ par_thread_level > 2
    /\ par_column = <<0, Unit, 2 * Unit>>
    /\ par_reordered


\* ------------------------------------------------------------------------
\* Claims about labels once given (DBSCANVisitor)
\* ------------------------------------------------------------------------

\* The positions that carry a cluster id.
DBClustered == {p \in DBPositions : At(db_cluster_ids, p) >= 0}

\* C21: within one apply, no step changes the label of a position that
\* carries a cluster id.
C21_ClusterIdKept ==
    [][(db_pc \in {"scan", "grow"} /\ db_pc' # "idle") =>
           \A p \in DBClustered :
               At(db_cluster_ids', p) = At(db_cluster_ids, p)]_vars


\* C21, as the code has it: within one apply the only step that changes the
\* label of a position that carries a cluster id is the labelling of a new
\* core point's neighbourhood, which gives the position, one of that
\* neighbourhood, the new and larger cluster id; the growth loop and the
\* noise branch never change a cluster id.
C21_OnlyNewCoreRelabels ==
    [][(db_pc \in {"scan", "grow"} /\ db_pc' # "idle") =>
           \A p \in DBClustered :
               At(db_cluster_ids', p) # At(db_cluster_ids, p) =>
                   /\ db_pc = "scan"
                   /\ db_pc' = "grow"
                   /\ p \in DBNeighbourhood(db_i)
                   /\ At(db_cluster_ids', p) = db_cluster_id
                   /\ At(db_cluster_ids, p) < db_cluster_id]_vars

\* A second cluster has just been started, and a core point the scan had
\* already passed, which therefore carried the first cluster's id, now
\* carries the second's.
C21_Witness ==
    /\ db_pc = "grow"
    /\ db_si = 0
    /\ db_cluster_id >= 1
    /\ \E p \in 0..(db_i - 1) :
          /\ DBCore(p)
          /\ At(db_cluster_ids, p) = db_cluster_id


\* ------------------------------------------------------------------------
\* Claims about AffinityPropVisitor's similarity table
\* ------------------------------------------------------------------------

\* The positions of the column of the apply under way.
APPositions == 0..(Len(ap_column) - 1)

\* The table entry of the unordered pair {i, k}: row min(i, k), column
\* max(i, k).
APPairEntry(i, k) ==
    IF i <= k THEN ap_simil[RowIdx(i, Len(ap_column)) + k]
    ELSE ap_simil[RowIdx(k, Len(ap_column)) + i]

\* C22: while the rounds run, for every pair of positions i and k the
\* similarity the responsibility update reads for (i, k) is the table entry
\* of the unordered pair: minus the distance of the two values when i and k
\* differ, the diagonal entry of i otherwise; and the read for (i, k) equals
\* the read for (k, i).
C22_SimilarityOfPair ==
    ap_pc = "loop" =>
        \A i \in APPositions : \A k \in APPositions :
            /\ SimilRead(ap_simil, Len(ap_column), i, k) = APPairEntry(i, k)
            /\ i # k =>
                  SimilRead(ap_simil, Len(ap_column), i, k) =
                      Similarity(At(ap_column, i), At(ap_column, k))
            /\ SimilRead(ap_simil, Len(ap_column), i, k) =
                   SimilRead(ap_simil, Len(ap_column), k, i)


\* The index of position i's diagonal entry in the table.
APDiagonal(i) == (i * Len(ap_column)) + i - ((i * (i + 1)) \div 2)

\* The values the building loop recorded for the pairs i < j that are
\* numbers.
APRecorded ==
    {Similarity(At(ap_column, i), At(ap_column, j)) :
         <<i, j>> \in {p \in APPositions \X APPositions : p[1] < p[2]}}
        \ {NaN}

\* C23 as stated: for a column of at least two points every diagonal entry
\* is the smallest value the building loop recorded over the pairs i < j.
C23_DiagonalIsSmallestRecorded ==
    (ap_pc = "loop" /\ Len(ap_column) >= 2) =>
        \A i \in APPositions :
            /\ ap_simil[APDiagonal(i)] \in APRecorded
            /\ \A r \in APRecorded : ap_simil[APDiagonal(i)] <= r

\* C23, as the code has it: for a column of at least two points every
\* diagonal entry holds one and the same value: the smallest number the
\* building loop recorded over the pairs i < j, which is minus the largest
\* distance; and the largest double when no pair's distance is a number.
C23_DiagonalIsMinDist ==
    (ap_pc = "loop" /\ Len(ap_column) >= 2) =>
        \A i \in APPositions :
            IF APRecorded = {}
            THEN ap_simil[APDiagonal(i)] = DblMax * APScale
            ELSE /\ ap_simil[APDiagonal(i)] \in APRecorded
                 /\ \A r \in APRecorded : ap_simil[APDiagonal(i)] <= r

\* The table of {0, 1, 9, 10} is built: the diagonal holds minus the
\* distance of 0 and 10, not minus that of 0 and 1.
C23_Witness ==
    /\ ap_pc = "loop"
    /\ ap_column = <<0, 1, 9, 10>>
    /\ ap_simil[APDiagonal(2)] = Similarity(0, 10)
    /\ ap_simil[APDiagonal(2)] # Similarity(0, 1)


\* ------------------------------------------------------------------------
\* Claims about KMeansVisitor's rounds
\* ------------------------------------------------------------------------

\* counts of the round that starts from the present means.
KMCounts ==
    Assign(0, km_column, km_result, [k \in 1..KMeansK |-> 0],
           [k \in 1..KMeansK |-> 0])[2]

\* C24: in every round the divisor of every cluster is at least 1, and the
\* round leaves the centroid of a cluster that was assigned no point as it
\* was.
C24_EmptyClusterKept ==
    [][(km_pc = "loop" /\ km_iter < km_iter_num) =>
           \A k \in 1..KMeansK :
               /\ Divisor(KMCounts[k]) >= 1
               /\ KMCounts[k] = 0 => km_result'[k] = km_result[k]]_vars


\* The operations up to the end of a visitor's first apply.
KMFirstApply == KMNext /\ km_runs' <= 1

\* calc_k_means_'s loop can run a round.
KMRoundEnabled == km_pc = "loop" /\ km_iter < km_iter_num

\* Weak fairness of KMRound, written with the guard of KMRound in place of
\* ENABLED <<KMRound>>_vars: a round always changes km_iter or km_pc.
KMRoundFair == []<>(~KMRoundEnabled) \/ []<><<KMRound>>_vars

\* KMeansVisitor's first apply with its loop always going on: the loop is
\* straight-line code of the calling thread.
SpecKMeansLive ==
    KMStart /\ [][KMFirstApply]_vars /\ WF_vars(KMLimit) /\ KMRoundFair

\* The means the round that starts from the present means computes:
\* new_means[cluster] / max(1, counts[cluster]).
KMNewMeans ==
    LET a == Assign(0, km_column, km_result, [k \in 1..KMeansK |-> 0],
                    [k \in 1..KMeansK |-> 0])
    IN  [k \in 1..KMeansK |-> a[1][k] \div Divisor(a[2][k])]

\* No centroid would move by more than the threshold in that round.
KMStill ==
    \A k \in 1..KMeansK : ~Less(0, dfunc_(KMNewMeans[k], km_result[k]))

\* C25: the loop runs a round only below the configured number of rounds;
\* a round in which no centroid moves by more than the threshold is the
\* last one, whatever the limit, and a round after which the loop goes on
\* moved some centroid; and the loop always ends.
C25_LoopStopsAndEnds ==
    /\ [](km_pc = "loop" => km_iter <= km_iter_num)
    /\ [][(km_pc = "loop" /\ km_result' # km_result) =>
              km_iter < km_iter_num]_vars
    /\ [][(km_pc = "loop" /\ km_iter < km_iter_num /\ KMStill) =>
              (km_pc' = "clusters" /\ km_result' = km_result)]_vars
    /\ [][(km_pc = "loop" /\ km_pc' = "loop") =>
              (~KMStill /\ km_iter' = km_iter + 1)]_vars
    /\ (km_pc = "loop") ~> (km_pc # "loop")

\* The loop was left below the limit, after a round that moved a centroid
\* and a round that moved none.
C25_Witness ==
    /\ km_pc = "clusters"
    /\ km_iter >= 1
    /\ km_iter < km_iter_num

\* ------------------------------------------------------------------------
\* Claims about MeanShiftVisitor's shifting loop and build_cluster_
\* ------------------------------------------------------------------------

\* The operations up to the end of a visitor's first apply.
MSFirstApply == MSNext /\ ms_runs' <= 1

\* operator()'s while loop can run a pass.
MSShiftEnabled ==
    /\ ms_pc = "loop"
    /\ ms_iterations < ms_max_iter
    /\ \E i \in 1..Len(ms_column) : ms_shifting[i]

\* Weak fairness of MSShift, written with the guard of MSShift in place of
\* ENABLED <<MSShift>>_vars: a pass always changes ms_iterations.
MSShiftFair == []<>(~MSShiftEnabled) \/ []<><<MSShift>>_vars

\* MeanShiftVisitor's first apply with its loop always going on: the loop is
\* straight-line code of the calling thread.
SpecMeanShiftLive ==
    MSStart /\ [][MSFirstApply]_vars /\ WF_vars(MSBuildBegin) /\ MSShiftFair

\* new_val of position i (1-based) in the pass that starts now.
MSCandidate(i) == NewVal(ms_shifted[i], ms_column, Radius(ms_kband))

\* shift_'s test for position i: the candidate against the column's value.
MSStops(i) == LessEq(dfunc_(MSCandidate(i), ms_column[i]), ms_max_dist)

\* C26: a pass takes every active position's candidate against the column's
\* own value there: within max_dist the position becomes inactive and keeps
\* its working value, otherwise the candidate becomes its working value and
\* it stays active; an inactive position stays inactive with its working
\* value for the rest of the call; a pass runs only below max_iteration and
\* with a position active; and the loop always ends.
C26_ShiftingRounds ==
    /\ [][(ms_pc = "loop" /\ ms_pc' = "loop") =>
              /\ ms_iterations < ms_max_iter
              /\ \E i \in 1..Len(ms_column) : ms_shifting[i]
              /\ ms_iterations' = ms_iterations + 1
              /\ \A i \in 1..Len(ms_column) :
                    ms_shifting[i] =>
                        IF MSStops(i)
                        THEN ~ms_shifting'[i] /\ ms_shifted'[i] = ms_shifted[i]
                        ELSE ms_shifting'[i]
                             /\ ms_shifted'[i] = MSCandidate(i)]_vars
    /\ [][(ms_pc = "loop" /\ ms_pc' \in {"loop", "build"}) =>
              \A i \in 1..Len(ms_column) :
                  ~ms_shifting[i] =>
                      ~ms_shifting'[i] /\ ms_shifted'[i] = ms_shifted[i]]_vars
    /\ [][(ms_pc = "build" /\ ms_pc' = "build") =>
              ms_shifted' = ms_shifted]_vars
    /\ [](ms_pc = "loop" => ms_iterations <= ms_max_iter)
    /\ (ms_pc = "loop") ~> (ms_pc # "loop")

\* A second pass has run with one position inactive since the first pass
\* and another still active on a working value that is not the column's.
C26_Witness ==
    /\ ms_pc = "loop"
    /\ ms_iterations = 2
    /\ \E i, j \in 1..Len(ms_column) :
          /\ ~ms_shifting[i]
          /\ ms_shifting[j]
          /\ ~is_nan__(ms_shifted[j])
          /\ ms_shifted[j] # ms_column[j]

\* The clusters (indices into clusters_) that have a stored centroid within
\* max_dist of the working value of position i.
MSNear(i) ==
    {c \in 0..(Len(ms_clusters) - 1) :
        /\ c < Len(ms_centriods)
        /\ LessEq(dfunc_(At(ms_centriods, c), At(ms_shifted, i)),
                  ms_max_dist)}

\* The position whose value the first entry of cluster c refers to.
MSFirstPoint(c) == At(ms_clusters, c)[1][2]

\* Every cluster has a stored centroid, the working value of its first
\* point.
MSCentroidsStored ==
    /\ Len(ms_centriods) = Len(ms_clusters)
    /\ \A c \in 0..(Len(ms_clusters) - 1) :
          /\ MSFirstPoint(c) < Len(ms_shifted)
          /\ At(ms_centriods, c) = At(ms_shifted, MSFirstPoint(c))

\* A step of build_cluster_'s scan takes position i into the earliest
\* cluster whose centroid is within max_dist of its working value, or else
\* into a new last cluster with that working value as centroid, and leaves
\* the centroids stored before as they are.
MSScanStep ==
    /\ ms_i' = ms_i + 1
    /\ IF MSNear(ms_i) # {}
       THEN /\ ms_clusters' =
                   SetAt(ms_clusters, MinOf(MSNear(ms_i)),
                         Append(At(ms_clusters, MinOf(MSNear(ms_i))),
                                ColumnRef(ms_i)))
            /\ ms_centriods' = ms_centriods
       ELSE /\ ms_clusters' = Append(ms_clusters, <<ColumnRef(ms_i)>>)
            /\ ms_centriods' = Append(ms_centriods, At(ms_shifted, ms_i))

\* C27: while build_cluster_ scans, every cluster has its first point's
\* working value as stored centroid, and every step of the scan takes the
\* next position into the earliest cluster whose centroid is within
\* max_dist, or else opens a cluster for it, changing no stored centroid.
C27_BuildInOrder ==
    /\ [](ms_pc = "build" => MSCentroidsStored)
    /\ [][(ms_pc = "build" /\ ms_pc' = "build") => MSScanStep]_vars

\* The same for the apply calls on a visitor whose lists are empty: it
\* holds for them.
C27_BuildInOrderWhenEmpty ==
    /\ [](ms_pc = "build" /\ ms_runs = 1 => MSCentroidsStored)
    /\ [][(ms_pc = "build" /\ ms_pc' = "build" /\ ms_runs = 1) =>
              MSScanStep]_vars

\* ------------------------------------------------------------------------
\* Claims about the published clusters of the four clustering visitors
\* ------------------------------------------------------------------------

\* Every value list is as long as its position list and its entry k refers
\* to the column element at the position in entry k of the position list.
Paired(clusters, clusters_idxs) ==
    /\ Len(clusters) = Len(clusters_idxs)
    /\ \A c \in 1..Len(clusters) :
          /\ Len(clusters[c]) = Len(clusters_idxs[c])
          /\ \A k \in 1..Len(clusters[c]) :
                k <= Len(clusters_idxs[c]) =>
                    clusters[c][k] = ColumnRef(clusters_idxs[c][k])

\* The same for DBSCANVisitor, whose value lists are held as the positions
\* they refer to.
DBPaired == db_clusters = db_clusters_idxs

\* What each visitor has published after an apply is paired.
KMPublishedPaired == km_pc = "done" => Paired(km_clusters, km_clusters_idxs)
APPublishedPaired == ap_pc = "done" => Paired(ap_clusters, ap_clusters_idxs)
DBPublishedPaired == db_pc = "done" => DBPaired
MSPublishedPaired == ms_pc = "done" => Paired(ms_clusters, ms_clusters_idxs)

\* C28: the clusters each of the four visitors has published after an apply
\* have value lists and position lists of the same lengths that go entry
\* by entry.
C28_ValuesGoWithPositions ==
    /\ KMPublishedPaired
    /\ APPublishedPaired
    /\ DBPublishedPaired
    /\ MSPublishedPaired

\* ------------------------------------------------------------------------
\* Claims about the chunks of FastFourierTransVisitor's loops
\* ------------------------------------------------------------------------

\* The indices of a chunk.
ChunkRange(task) == task.begin..(task.end - 1)

\* The elements a chunk writes over its whole range.
ChunkWrites(task) ==
    UNION {Written(task.stage, i, Buffers) : i \in ChunkRange(task)}

\* The chunks in flight are non-empty ranges of the running stage's loop
\* and every index of the loop is in exactly one of them.
ChunksCoverOnce ==
    LET range == StageRange(par_pc, Buffers)
    IN  /\ \A k \in 1..Len(par_tasks) :
              /\ par_tasks[k].stage = par_pc
              /\ range[1] <= par_tasks[k].begin
              /\ par_tasks[k].begin < par_tasks[k].end
              /\ par_tasks[k].end <= range[2]
        /\ \A i \in range[1]..(range[2] - 1) :
              Cardinality({k \in 1..Len(par_tasks) :
                              i \in ChunkRange(par_tasks[k])}) = 1

\* No element is written by two chunks; in the Bluestein loop over yvec
\* every index writes two elements of yvec, inside it.
ChunksWriteApart ==
    /\ \A j, k \in 1..Len(par_tasks) :
          j # k => ChunkWrites(par_tasks[j]) \cap ChunkWrites(par_tasks[k]) = {}
    /\ par_pc = "b_yvec" =>
          \A k \in 1..Len(par_tasks) :
              \A i \in ChunkRange(par_tasks[k]) :
                  /\ 1 <= i /\ i < Len(par_work)
                  /\ Mirror(i, Buffers) # i
                  /\ Mirror(i, Buffers) < Len(par_yvec)
                  /\ Cardinality(ChunkWrites(par_tasks[k])) =
                         2 * Cardinality(ChunkRange(par_tasks[k]))

\* The elements <<buffer, index>> whose value a step changes.
ChangedIn(name, old, new) ==
    {<<name, e>> : e \in {e \in 0..(Len(old) - 1) : At(new, e) # At(old, e)}}

Changed ==
    ChangedIn("work", par_work, par_work')
        \cup ChangedIn("exp_table", par_exp_table, par_exp_table')
        \cup ChangedIn("xvec", par_xvec, par_xvec')
        \cup ChangedIn("yvec", par_yvec, par_yvec')
        \cup ChangedIn("table", par_table, par_table')
        \cup ChangedIn("result", par_result, par_result')

\* C29: the chunks a loop is dispatched in are disjoint ranges that cover
\* the loop's range exactly once; no two of them write the same element of
\* a buffer, the Bluestein loop that writes yvec[i] and yvec[m - i]
\* included; and a chunk's step for an index changes no element but those
\* the index writes, and no buffer's length.
C29_ChunksWriteApart ==
    /\ [](par_phase = "join" => ChunksCoverOnce /\ ChunksWriteApart)
    /\ [][(par_phase = "join" /\ par_phase' = "join"
               /\ par_tasks' # par_tasks) =>
              \E k \in 1..Len(par_tasks) :
                  /\ par_tasks' = [par_tasks EXCEPT ![k].next = @ + 1]
                  /\ Changed \subseteq
                         Written(par_pc, par_tasks[k].next, Buffers)
                  /\ Len(par_work') = Len(par_work)
                  /\ Len(par_exp_table') = Len(par_exp_table)
                  /\ Len(par_xvec') = Len(par_xvec)
                  /\ Len(par_yvec') = Len(par_yvec)
                  /\ Len(par_table') = Len(par_table)]_vars

\* The Bluestein loop over yvec of a column of three was cut into two
\* chunks and both have run: yvec holds what index 1 wrote at 1 and 7 and
\* what index 2 wrote at 2 and 6.
C29_Witness ==
    /\ par_pc = "b_yvec"
    /\ par_phase = "join"
    /\ Len(par_tasks) = 2
    /\ \A k \in 1..2 : Completed(par_tasks[k])
    /\ Len(par_work) = 3
    /\ Len(par_yvec) = 8
    /\ \A e \in {1, 2, 6, 7} : At(par_yvec, e) # CZero
    /\ \A e \in {3, 4, 5} : At(par_yvec, e) = CZero

\* ------------------------------------------------------------------------
\* The calls of FastFourierTransVisitor's transforms
\* ------------------------------------------------------------------------
\* operator() hands its column to transform_ or itransform_, which choose
\* fft_radix2_ or fft_bluestein_ by the length; fft_bluestein_ calls
\* convolve_ on two sequences of its length m, and convolve_ calls
\* transform_ three times.  Only the lengths decide who is called, so the
\* calls are followed with the lengths alone.

\* Bound: the longest column the calls are followed for.
CVMaxLen == 12

\* Bound: how many calls may be open at once.
CVMaxDepth == 8

\* A call of fn on a sequence of col_s elements: m is fft_bluestein_'s m
\* once computed, done counts the calls it has made.
Frame(fn, col_s, reverse) ==
    [fn |-> fn, col_s |-> col_s, reverse |-> reverse, m |-> 0, done |-> 0]

\* The call on top of the stack, and the stack with it replaced.
Top == cv_stack[Len(cv_stack)]
WithTop(f) == [cv_stack EXCEPT ![Len(cv_stack)] = f]

\* The call f calls fn on col_s elements.
Call(f, fn, col_s, reverse) ==
    /\ Len(cv_stack) < CVMaxDepth
    /\ cv_stack' = Append(WithTop([f EXCEPT !.done = @ + 1]),
                          Frame(fn, col_s, reverse))
    /\ cv_log' = Append(cv_log, <<fn, col_s, reverse>>)

\* fft_bluestein_'s m for a column of col_s elements.
BluesteinLength(col_s) == ConvLen(1, col_s)

\* if ((col_s & (col_s - 1)) == 0) fft_radix2_ else fft_bluestein_
Chosen(col_s) ==
    IF IsPowerOf2(col_s) THEN "fft_radix2_" ELSE "fft_bluestein_"

CVInit ==
    /\ cv_inverse \in BOOLEAN
    /\ cv_col_s \in 0..CVMaxLen
    /\ cv_stack = << >>
    /\ cv_log = << >>
    /\ cv_pc = "idle"

\* operator(): itransform_(result) or transform_(result, false).
CVBegin ==
    /\ cv_pc = "idle"
    /\ LET fn == IF cv_inverse THEN "itransform_" ELSE "transform_"
       IN  /\ cv_stack' = <<Frame(fn, cv_col_s, FALSE)>>
           /\ cv_log' = <<<<fn, cv_col_s, FALSE>>>>
    /\ cv_pc' = "run"
    /\ UNCHANGED <<cv_inverse, cv_col_s>>
    /\ UNCHANGED notCV

\* transform_ on an empty sequence returns at once.
CVEmpty ==
    /\ cv_pc = "run"
    /\ Top.fn = "transform_"
    /\ Top.done = 0
    /\ Top.col_s = 0
    /\ cv_stack' = WithTop([Top EXCEPT !.done = 1])
    /\ UNCHANGED <<cv_inverse, cv_col_s, cv_log, cv_pc>>
    /\ UNCHANGED notCV

\* transform_ and itransform_ choose by the length; itransform_ has no
\* test for the empty sequence.
CVDispatch ==
    /\ cv_pc = "run"
    /\ Top.fn \in {"transform_", "itransform_"}
    /\ Top.done = 0
    /\ Top.fn = "transform_" => Top.col_s # 0
    /\ Call(Top, Chosen(Top.col_s), Top.col_s,
            Top.fn = "transform_" /\ Top.reverse)
    /\ UNCHANGED <<cv_inverse, cv_col_s, cv_pc>>
    /\ UNCHANGED notCV

\* fft_bluestein_ finds its m.
CVLength ==
    /\ cv_pc = "run"
    /\ Top.fn = "fft_bluestein_"
    /\ Top.m = 0
    /\ cv_stack' = WithTop([Top EXCEPT !.m = BluesteinLength(Top.col_s)])
    /\ UNCHANGED <<cv_inverse, cv_col_s, cv_log, cv_pc>>
    /\ UNCHANGED notCV

\* fft_bluestein_ calls convolve_ on xvec and yvec, of m elements each.
CVConvolve ==
    /\ cv_pc = "run"
    /\ Top.fn = "fft_bluestein_"
    /\ Top.m # 0
    /\ Top.done = 0
    /\ Call(Top, "convolve_", Top.m, FALSE)
    /\ UNCHANGED <<cv_inverse, cv_col_s, cv_pc>>
    /\ UNCHANGED notCV

\* convolve_ calls transform_: on xvec, on yvec, and on xvec in reverse.
CVInner ==
    /\ cv_pc = "run"
    /\ Top.fn = "convolve_"
    /\ Top.done < 3
    /\ Call(Top, "transform_", Top.col_s, Top.done = 2)
    /\ UNCHANGED <<cv_inverse, cv_col_s, cv_pc>>
    /\ UNCHANGED notCV

\* Whether the call f has nothing left to call.
Finished(f) ==
    CASE f.fn = "fft_radix2_" -> TRUE
      [] f.fn = "convolve_" -> f.done = 3
      [] OTHER -> f.done = 1

\* The call on top returns.
CVReturn ==
    /\ cv_pc = "run"
    /\ Finished(Top)
    /\ cv_stack' = SubSeq(cv_stack, 1, Len(cv_stack) - 1)
    /\ cv_pc' = IF Len(cv_stack) = 1 THEN "done" ELSE "run"
    /\ UNCHANGED <<cv_inverse, cv_col_s, cv_log>>
    /\ UNCHANGED notCV

CVNext ==
    \/ CVBegin
    \/ CVEmpty
    \/ CVDispatch
    \/ CVLength
    \/ CVConvolve
    \/ CVInner
    \/ CVReturn

\* The calls of one FastFourierTransVisitor alone.
CVStart ==
    CVInit /\ DBOff /\ KMOff /\ APOff /\ MSOff /\ FFTOff /\ RTOff /\ ParOff

SpecCalls == CVStart /\ [][CVNext]_vars

\* The smallest power of two that is at least x.
LeastPowerOf2(x) ==
    CHOOSE p \in 1..(2 * x) :
        /\ IsPowerOf2(p)
        /\ p >= x
        /\ \A q \in 1..(p - 1) : IsPowerOf2(q) => q < x

\* The open calls of fft_bluestein_.
CVBluesteins ==
    {k \in 1..Len(cv_stack) : cv_stack[k].fn = "fft_bluestein_"}

\* The calls a run makes for a column whose length n is not a power of
\* two, m being the smallest power of two that is at least 2n + 1.
CVExpected(n) ==
    LET m == LeastPowerOf2(2 * n + 1)
    IN  << <<IF cv_inverse THEN "itransform_" ELSE "transform_", n, FALSE>>,
           <<"fft_bluestein_", n, FALSE>>,
           <<"convolve_", m, FALSE>>,
           <<"transform_", m, FALSE>>, <<"fft_radix2_", m, FALSE>>,
           <<"transform_", m, FALSE>>, <<"fft_radix2_", m, FALSE>>,
           <<"transform_", m, TRUE>>, <<"fft_radix2_", m, TRUE>> >>

\* C30: fft_bluestein_ is entered only for a length n >= 1 that is not a
\* power of two; its m is the smallest power of two with m >= 2n + 1; no
\* call of fft_bluestein_ is open inside another; and the run makes exactly
\* three transforms of length m, two forward and one reverse, each by
\* fft_radix2_.
C30_BluesteinLength ==
    /\ \A k \in CVBluesteins :
          /\ cv_stack[k].col_s >= 1
          /\ ~IsPowerOf2(cv_stack[k].col_s)
          /\ cv_stack[k].m # 0 =>
                cv_stack[k].m = LeastPowerOf2(2 * cv_stack[k].col_s + 1)
    /\ Cardinality(CVBluesteins) <= 1
    /\ (cv_pc = "done" /\ cv_col_s >= 1 /\ ~IsPowerOf2(cv_col_s)) =>
           cv_log = CVExpected(cv_col_s)

\* The run for a column of five elements is over: its three inner
\* transforms were of sixteen elements.
C30_Witness ==
    /\ cv_pc = "done"
    /\ cv_col_s = 5
    /\ Len(cv_log) = 9
    /\ cv_log[2] = <<"fft_bluestein_", 5, FALSE>>
    /\ cv_log[9] = <<"fft_radix2_", 16, TRUE>>

====
